---- MODULE Spec2Model ----
(***************************************************************************)
(* Table-Clock firmware: the interrupt-fed input pipeline                  *)
(* (Hardware/input.c) and the page manager (App/app_display.c, v1.1).      *)
(*                                                                         *)
(* The input driver is written as operators over a record `s` holding the  *)
(* driver's static variables, so that one scan of the timer interrupt is   *)
(* the composition input_tick ; Keys_Update ; Encoder_Update exactly as in *)
(* input_scan_timer_irq_handler.  The actions copy the record back into    *)
(* the variables.                                                          *)
(***************************************************************************)
EXTENDS Integers, Sequences, FiniteSets, TLC

(* ------------------------------------------------------------------ *)
(* Program constants                                                    *)
(* ------------------------------------------------------------------ *)
INPUT_KEY_DEBOUNCE == 2
INPUT_FIFO_SIZE == 32

INPUT_EVENT_NONE == 0
INPUT_EVENT_BACK_PRESSED == 1
INPUT_EVENT_COMFIRM_PRESSED == 2
INPUT_EVENT_ENCODER_PRESSED == 3
INPUT_EVENT_ENCODER == 4

INPUT_STATE_IDLE == 0
INPUT_STATE_DEBOUNCE == 1
INPUT_STATE_PRESSED == 2

GPIO_PIN_RESET == 0
GPIO_PIN_SET == 1

PAGE_HISTORY_MAX_DEPTH == 8
ANIM_DURATION == 250

MANAGER_STATE_IDLE == 0
MANAGER_STATE_ANIMATING == 1

(* width of the encoder timer's counter and of uint16_t / int16_t *)
TwoPow16 == 65536
TwoPow15 == 32768
TwoPow23 == 8388608
TwoPow8 == 256
TwoPow7 == 128

NEVER == 0

AUTO_OFF_ITEM_COUNT == 5
VISIBLE_ITEMS == 4
AUTO_OFF_STATE_IDLE == 0
AUTO_OFF_STATE_ANIMATING_HIGHLIGHT == 1
AUTO_OFF_STATE_ANIMATING_LIST == 2
AUTO_OFF_STATE_SHOW_MSG == 3
LIST_SCROLL_DURATION == 200
HIGHLIGHT_DURATION == 120

LANGUAGE_ITEM_COUNT == 2
LANGUAGE_STATE_IDLE == 0
LANGUAGE_STATE_ANIMATING == 1
LANGUAGE_STATE_SHOW_MSG == 2

DST_ITEM_COUNT == 2
DST_STATE_IDLE == 0
DST_STATE_ANIMATING == 1
DST_STATE_SHOW_MSG == 2

(* highlight animation of the two-item lists, display time of the message *)
TOGGLE_DURATION == 150

SLOT_ITEM_COUNT == 3
DATE_STATE_ENTERING == 0
DATE_STATE_ZOOMING_IN == 1
DATE_STATE_FOCUSED == 2
DATE_STATE_ZOOMING_OUT == 3
DATE_STATE_SWITCHING == 4
DATE_STATE_SLOT_ROLLING == 5
DATE_STATE_SHOW_MSG == 6

TIME_SLOT_ITEM_COUNT == 3
TIME_STATE_ENTERING == 0
TIME_STATE_ZOOMING_IN == 1
TIME_STATE_FOCUSED == 2
TIME_STATE_ZOOMING_OUT == 3
TIME_STATE_SWITCHING == 4
TIME_STATE_SLOT_ROLLING == 5
TIME_STATE_SHOW_MSG == 6

ANIM_DURATION_ENTER == 800
ANIM_DURATION_ZOOM == 600
(* slot_duration of the two Page_Loop functions *)
SLOT_DURATION == 150
MSG_DURATION == 1000

(* ------------------------------------------------------------------ *)
(* Bounds of the model                                                  *)
(* ------------------------------------------------------------------ *)
(* scans of the timer interrupt in a behaviour of SpecFifo *)
MaxScans == 34
(* scans with free pin samples in a behaviour of SpecKeys *)
MaxKeyScans == 3
(* scans with free counter movements in a behaviour of SpecEncoder *)
MaxEncScans == 4
(* input_get_event calls in a behaviour of SpecKeys or SpecEncoder *)
MaxReads == 2
(* saturation of the ghost that counts consecutive asserted samples *)
RunCap == 3
(* last value of the millisecond tick in a behaviour of SpecNav *)
MaxTick == 500
(* scans of the timer interrupt in a behaviour of SpecNav *)
MaxNavScans == 1
(* completed transitions in a behaviour of SpecHistory *)
MaxTransitions == 9
(* scans of the timer interrupt in a behaviour of SpecApp *)
MaxAppScans == 4
(* last value of the millisecond tick in a behaviour of SpecApp *)
MaxAppTick == 125000
(* time without input that passes in one step when no timer is running *)
QuietTime == 61000
(* the user walks the menus before the tick reaches this value *)
MaxMenuTick == 750
(* last value of the millisecond tick in a behaviour of SpecSlide *)
MaxSlideTick == 260
(* scans of the encoder in a behaviour of SpecDispatch *)
MaxDispatchScans == 3
(* last value of the millisecond tick in a behaviour of SpecDispatch *)
MaxDispatchTick == 255
(* last value of the millisecond tick in a behaviour of SpecList *)
MaxListTick == 600
(* events the driver queues in a behaviour of SpecEdges *)
MaxEdgeEvents == 3
(* events the driver queues in a behaviour of SpecBack *)
MaxBackEvents == 3
(* last value of the millisecond tick in a behaviour of SpecBack *)
MaxBackTick == 8000
(* the user presses a key this long after the latest step, when no timer   *)
(* runs out before                                                         *)
MessageLate == 800
(* scans of the encoder in a behaviour of SpecOff *)
MaxOffScans == 3
(* last value of the millisecond tick in a behaviour of SpecOff *)
MaxOffTick == 100000
(* scans of the encoder in a behaviour of SpecRace *)
MaxRaceScans == 4
(* events handed to the two picker pages in a behaviour of SpecPair *)
MaxPairEvents == 3
(* last value of the millisecond tick in a behaviour of SpecPair *)
MaxPairTick == 6000

(* ------------------------------------------------------------------ *)
(* Names                                                                *)
(* ------------------------------------------------------------------ *)
Key_Back == "Key_Back"
Key_Confirm == "Key_Confirm"
Key_Encoder == "Key_Encoder"
Keys == {Key_Back, Key_Confirm, Key_Encoder}

(* the press_event argument Keys_Update passes for each key *)
PressEvent(k) ==
    CASE k = Key_Back -> INPUT_EVENT_BACK_PRESSED
      [] k = Key_Confirm -> INPUT_EVENT_COMFIRM_PRESSED
      [] k = Key_Encoder -> INPUT_EVENT_ENCODER_PRESSED

(* page objects; NULL is the null Page_Base pointer *)
NULL == "NULL"
g_page_main == "g_page_main"
g_page_main_menu == "g_page_main_menu"
g_page_info == "g_page_info"
g_page_display == "g_page_display"
g_page_time_set == "g_page_time_set"
g_page_auto_off == "g_page_auto_off"
g_page_language == "g_page_language"
g_page_time_dst == "g_page_time_dst"
g_page_time_date == "g_page_time_date"
g_page_time_time == "g_page_time_time"
Pages == {g_page_main, g_page_main_menu, g_page_info, g_page_display,
          g_page_time_set, g_page_auto_off, g_page_language, g_page_time_dst,
          g_page_time_date, g_page_time_time}

(* the pages the manager is driven through when the pages' own hooks are   *)
(* not part of the behaviour                                               *)
NavTargets == {g_page_main, g_page_main_menu, g_page_info}

(* the pages with a list of choices, a highlight and a result message *)
ListPages == {g_page_auto_off, g_page_language, g_page_time_dst}

(* the pages that edit the date and the time of the RTC field by field *)
PickerPages == {g_page_time_date, g_page_time_time}

(* the argument of each Switch_Page call in the action hook of a page *)
SwitchTargets(pg) ==
    CASE pg = g_page_main -> {g_page_main_menu}
      [] pg = g_page_main_menu -> {g_page_display, g_page_time_set, g_page_info}
      [] pg = g_page_display -> {g_page_auto_off, g_page_language}
      [] pg = g_page_time_set -> {g_page_time_date, g_page_time_time,
                                  g_page_time_dst}
      [] OTHER -> {}

(* hooks the page objects set: every page sets enter, draw and action,     *)
(* g_page_info leaves loop NULL                                            *)
HasEnter(pg) == TRUE
HasLoop(pg) == pg # g_page_info
HasDraw(pg) == TRUE
HasAction(pg) == TRUE

refresh_rate_ms(pg) ==
    CASE pg = g_page_main -> 100
      [] pg = g_page_main_menu -> 30
      [] pg = g_page_info -> 10000
      [] pg = g_page_display -> 30
      [] pg = g_page_time_set -> 16
      [] pg = g_page_auto_off -> 30
      [] pg = g_page_language -> 30
      [] pg = g_page_time_dst -> 30
      [] pg = g_page_time_date -> 16
      [] pg = g_page_time_time -> 16

(* u8g2_GetDisplayWidth of the 128x64 SSD1306 *)
DisplayWidth == 128

(* value of push_ret / pop_ret when the function was not called *)
NoCall == -1
(* value of reads when the main loop may call input_get_event at will *)
Unlimited == -1
(* value of burst when a pop has interrupted the run of pushes *)
BurstVoid == -1

(* memset(input_event_fifo, 0, sizeof(input_event_fifo)) *)
ZeroEvent == [event |-> INPUT_EVENT_NONE, value |-> 0, timestamp |-> 0]
ZeroFifo == [i \in 0 .. (INPUT_FIFO_SIZE - 1) |-> ZeroEvent]

Min(a, b) == IF a < b THEN a ELSE b

(* (int16_t) of a value already reduced modulo 2^16 *)
ToInt16(u) == IF u >= TwoPow15 THEN u - TwoPow16 ELSE u

VARIABLES
    (* static variables of input.c *)
    input_event_fifo, fifo_head, fifo_tail, fifo_count,
    last_encoder_count, system_tick, Key,
    (* hardware: counter register of the encoder timer, HAL millisecond tick *)
    TIM_CNT, uwTick,
    (* main-loop position inside fifo_pop_event, event and value it returned *)
    pc_main, pop_event, pop_ret,
    (* observers of the input driver *)
    push_ret, pending, pop_expect, burst, drained, budget, op,
    keyObs, encObs, count_ret, reads,
    (* the queue variables read or written so far outside a critical section *)
    unmasked,
    (* g_page_manager, and the last_refresh_time field of each page *)
    current_page, manager_state, page_from, page_to, anim_start_time,
    anim_duration, history_stack, history_depth, last_refresh_time,
    (* whether the exit pointer of each page object is set *)
    page_exit,
    (* observers of the page manager *)
    calls, last_enter, sw, nav_arg, pre_depth, roundTrip,
    (* g_app_settings and the static variables of app_main.c *)
    g_app_settings, last_activity_time, is_screen_on, auto_off_timeout_ms,
    (* private data of the list-selector pages *)
    g_page_auto_off_data, g_page_language_data, g_page_dst_data,
    (* private data of the date page and of the time page, and the seven   *)
    (* time registers of the DS3231                                        *)
    g_page_date_data, g_page_time_data, ds3231,
    (* the copy of the settings held by the AT24C32 EEPROM *)
    at24c32,
    (* observers of the application: the hooks run by the latest pass of   *)
    (* the main loop, and the tick of the latest input event               *)
    appObs, last_input_tick

inputVars == <<input_event_fifo, fifo_head, fifo_tail, fifo_count,
               last_encoder_count, system_tick, Key, TIM_CNT, uwTick,
               pc_main, pop_event, pop_ret,
               push_ret, pending, pop_expect, burst, drained, budget, op,
               keyObs, encObs, count_ret, reads, unmasked>>

navVars == <<current_page, manager_state, page_from, page_to, anim_start_time,
             anim_duration, history_stack, history_depth, last_refresh_time,
             page_exit, calls, last_enter, sw, nav_arg, pre_depth, roundTrip>>

(* the input driver without the tick and the name of the latest step *)
driverVars == <<input_event_fifo, fifo_head, fifo_tail, fifo_count,
                last_encoder_count, system_tick, Key, TIM_CNT,
                pc_main, pop_event, pop_ret,
                push_ret, pending, pop_expect, burst, drained, budget,
                keyObs, encObs, count_ret, reads, unmasked>>

appVars == <<g_app_settings, last_activity_time, is_screen_on,
             auto_off_timeout_ms, g_page_auto_off_data, g_page_language_data,
             g_page_dst_data, g_page_date_data, g_page_time_data, ds3231,
             at24c32, appObs>>

vars == <<inputVars, navVars, appVars, last_input_tick>>

(* ------------------------------------------------------------------ *)
(* The driver's state as one record                                     *)
(* ------------------------------------------------------------------ *)
InputState ==
    [fifo |-> input_event_fifo, head |-> fifo_head, tail |-> fifo_tail,
     count |-> fifo_count, last |-> last_encoder_count,
     tick |-> system_tick, key |-> Key, cnt |-> TIM_CNT,
     pop_event |-> pop_event, pop_ret |-> pop_ret,
     push_ret |-> push_ret, pending |-> pending, pop_expect |-> pop_expect,
     burst |-> burst, drained |-> drained, unmasked |-> unmasked,
     keyObs |-> keyObs, encObs |-> encObs]

(* observer: what fifo_push_event was asked to store and what it answered; *)
(* it has tested fifo_count before __disable_irq()                         *)
LogPush(s, e, ret) ==
    [s EXCEPT !.push_ret = ret,
              !.unmasked = @ \cup {"fifo_count"},
              !.pending = IF ret = 1 THEN Append(@, e) ELSE @,
              !.burst = IF @ = BurstVoid THEN BurstVoid ELSE @ + 1]

(* fifo_push_event with the capacity test off by one *)
fifo_push_event_offbyone(s, event, value) ==
    LET e == [event |-> event, value |-> value, timestamp |-> s.tick] IN
    IF s.count > INPUT_FIFO_SIZE
    THEN LogPush(s, e, 0)
    ELSE LogPush([s EXCEPT !.fifo[s.head] = e,
                           !.head = (s.head + 1) % INPUT_FIFO_SIZE,
                           !.count = s.count + 1], e, 1)

fifo_push_event(s, event, value) ==
    LET e == [event |-> event, value |-> value, timestamp |-> s.tick] IN
    IF s.count >= INPUT_FIFO_SIZE
    THEN LogPush(s, e, 0)
    ELSE LogPush([s EXCEPT !.fifo[s.head] = e,
                           !.head = (s.head + 1) % INPUT_FIFO_SIZE,
                           !.count = s.count + 1], e, 1)

(* input_tick: system_tick = HAL_GetTick() *)
input_tick(s, now) == [s EXCEPT !.tick = now]

(* Encoder_Update that forgets to store the count it has reported *)
Encoder_Update_stale(s) ==
    LET current_count == s.cnt % TwoPow16
        delta == ToInt16((current_count - (s.last % TwoPow16)) % TwoPow16)
    IN  IF delta # 0
        THEN fifo_push_event(s, INPUT_EVENT_ENCODER, delta)
        ELSE s

(* Encoder_Update that subtracts the counts as plain integers *)
Encoder_Update_nowrap(s) ==
    LET current_count == s.cnt % TwoPow16
        delta == current_count - s.last
    IN  IF delta # 0
        THEN [fifo_push_event(s, INPUT_EVENT_ENCODER, delta)
                 EXCEPT !.last = current_count]
        ELSE s

Encoder_Update(s) ==
    LET current_count == s.cnt % TwoPow16
        delta == ToInt16((current_count - (s.last % TwoPow16)) % TwoPow16)
    IN  IF delta # 0
        THEN [fifo_push_event(s, INPUT_EVENT_ENCODER, delta)
                 EXCEPT !.last = current_count]
        ELSE s

(* Key_Update that stays Debouncing when the pin de-asserts *)
Key_Update_noabort(s, k, pin_state) ==
    LET key == s.key[k] IN
    CASE key.state = INPUT_STATE_IDLE ->
           IF pin_state = GPIO_PIN_RESET
           THEN [s EXCEPT !.key[k] = [state |-> INPUT_STATE_DEBOUNCE,
                                      debounce_count |-> 1]]
           ELSE s
      [] key.state = INPUT_STATE_DEBOUNCE ->
           IF pin_state = GPIO_PIN_RESET
           THEN IF key.debounce_count + 1 >= INPUT_KEY_DEBOUNCE
                THEN [fifo_push_event(s, PressEvent(k), 0)
                         EXCEPT !.key[k] = [state |-> INPUT_STATE_PRESSED,
                                            debounce_count |-> key.debounce_count + 1]]
                ELSE [s EXCEPT !.key[k].debounce_count = key.debounce_count + 1]
           ELSE s
      [] key.state = INPUT_STATE_PRESSED ->
           IF pin_state = GPIO_PIN_SET
           THEN [s EXCEPT !.key[k] = [state |-> INPUT_STATE_IDLE,
                                      debounce_count |-> 0]]
           ELSE s
      [] OTHER ->
           [s EXCEPT !.key[k] = [state |-> INPUT_STATE_IDLE,
                                 debounce_count |-> 0]]

(* Key_Update that pushes the press event but stays Debouncing *)
Key_Update_repeat(s, k, pin_state) ==
    LET key == s.key[k] IN
    CASE key.state = INPUT_STATE_IDLE ->
           IF pin_state = GPIO_PIN_RESET
           THEN [s EXCEPT !.key[k] = [state |-> INPUT_STATE_DEBOUNCE,
                                      debounce_count |-> 1]]
           ELSE s
      [] key.state = INPUT_STATE_DEBOUNCE ->
           IF pin_state = GPIO_PIN_RESET
           THEN IF key.debounce_count + 1 >= INPUT_KEY_DEBOUNCE
                THEN [fifo_push_event(s, PressEvent(k), 0)
                         EXCEPT !.key[k] = [state |-> INPUT_STATE_DEBOUNCE,
                                            debounce_count |-> INPUT_KEY_DEBOUNCE]]
                ELSE [s EXCEPT !.key[k].debounce_count = key.debounce_count + 1]
           ELSE [s EXCEPT !.key[k] = [state |-> INPUT_STATE_IDLE,
                                      debounce_count |-> 0]]
      [] key.state = INPUT_STATE_PRESSED ->
           IF pin_state = GPIO_PIN_SET
           THEN [s EXCEPT !.key[k] = [state |-> INPUT_STATE_IDLE,
                                      debounce_count |-> 0]]
           ELSE s
      [] OTHER ->
           [s EXCEPT !.key[k] = [state |-> INPUT_STATE_IDLE,
                                 debounce_count |-> 0]]

Key_Update(s, k, pin_state) ==
    LET key == s.key[k] IN
    CASE key.state = INPUT_STATE_IDLE ->
           IF pin_state = GPIO_PIN_RESET
           THEN [s EXCEPT !.key[k] = [state |-> INPUT_STATE_DEBOUNCE,
                                      debounce_count |-> 1]]
           ELSE s
      [] key.state = INPUT_STATE_DEBOUNCE ->
           IF pin_state = GPIO_PIN_RESET
           THEN IF key.debounce_count + 1 >= INPUT_KEY_DEBOUNCE
                THEN [fifo_push_event(s, PressEvent(k), 0)
                         EXCEPT !.key[k] = [state |-> INPUT_STATE_PRESSED,
                                            debounce_count |-> key.debounce_count + 1]]
                ELSE [s EXCEPT !.key[k].debounce_count = key.debounce_count + 1]
           ELSE [s EXCEPT !.key[k] = [state |-> INPUT_STATE_IDLE,
                                      debounce_count |-> 0]]
      [] key.state = INPUT_STATE_PRESSED ->
           IF pin_state = GPIO_PIN_SET
           THEN [s EXCEPT !.key[k] = [state |-> INPUT_STATE_IDLE,
                                      debounce_count |-> 0]]
           ELSE s
      [] OTHER ->
           [s EXCEPT !.key[k] = [state |-> INPUT_STATE_IDLE,
                                 debounce_count |-> 0]]

(* observer of one Key_Update call: length of the current run of asserted  *)
(* samples, the fifo_push_event calls made and accepted during the run,    *)
(* the run length at which the call was made and whether the queue was     *)
(* full then, and the key's state before the call                          *)
ObserveKey(o, k, before, after, pin_state) ==
    LET called == after.push_ret # NoCall
        stored == after.push_ret = 1
        run == IF pin_state = GPIO_PIN_RESET THEN Min(o.run + 1, RunCap) ELSE 0
    IN  IF pin_state = GPIO_PIN_SET
        THEN [o EXCEPT !.run = 0,
                       !.calls = IF called THEN 1 ELSE 0,
                       !.enq = IF stored THEN 1 ELSE 0,
                       !.callAt = 0,
                       !.fullAt = FALSE,
                       !.everCalled = @ \/ called,
                       !.lastPin = pin_state,
                       !.prevState = before.key[k].state]
        ELSE [o EXCEPT !.run = run,
                       !.calls = IF called THEN @ + 1 ELSE @,
                       !.enq = IF stored THEN @ + 1 ELSE @,
                       !.callAt = IF called THEN run ELSE @,
                       !.fullAt = IF called THEN before.count = INPUT_FIFO_SIZE ELSE @,
                       !.glitchOnly = @ /\ run < INPUT_KEY_DEBOUNCE,
                       !.everCalled = @ \/ called,
                       !.lastPin = pin_state,
                       !.prevState = before.key[k].state]

KeyStep(s, k, pin_state) ==
    LET r == Key_Update([s EXCEPT !.push_ret = NoCall], k, pin_state) IN
    [r EXCEPT !.keyObs[k] = ObserveKey(@, k, s, r, pin_state)]

(* pins[k] is what HAL_GPIO_ReadPin returns for key k in this scan *)
Keys_Update(s, pins) ==
    KeyStep(KeyStep(KeyStep(s, Key_Back, pins[Key_Back]),
                    Key_Confirm, pins[Key_Confirm]),
            Key_Encoder, pins[Key_Encoder])

(* observer of one Encoder_Update call: sums, modulo 2^16, of the deltas   *)
(* fifo_push_event stored and of the deltas it dropped                     *)
ObserveEncoder(o, before, after) ==
    LET d == ToInt16((after.cnt - before.last) % TwoPow16) IN
    CASE after.push_ret = 1 -> [o EXCEPT !.enq = (@ + after.fifo[before.head].value) % TwoPow16]
      [] after.push_ret = 0 -> [o EXCEPT !.drop = (@ + d) % TwoPow16]
      [] OTHER -> o

EncStep(s) ==
    LET r == Encoder_Update([s EXCEPT !.push_ret = NoCall]) IN
    [r EXCEPT !.encObs = ObserveEncoder(@, s, r)]

(* htim == g_htim_scan; `now` is the value HAL_GetTick() returns *)
input_scan_timer_irq_handler(s, pins, now) ==
    EncStep(Keys_Update(input_tick(s, now), pins))

(* fifo_pop_event reading the slot at the write index *)
fifo_pop_event_head(s) ==
    [s EXCEPT !.pop_event = s.fifo[(s.head + INPUT_FIFO_SIZE - 1) % INPUT_FIFO_SIZE],
              !.tail = (s.tail + 1) % INPUT_FIFO_SIZE,
              !.count = s.count - 1,
              !.pop_ret = 1,
              !.pop_expect = IF s.pending # <<>> THEN Head(s.pending) ELSE ZeroEvent,
              !.pending = IF s.pending # <<>> THEN Tail(s.pending) ELSE <<>>,
              !.burst = IF s.count - 1 = 0 THEN 0 ELSE BurstVoid,
              !.drained = @ + 1]

(* the critical section of fifo_pop_event, entered with fifo_count > 0 *)
fifo_pop_event(s) ==
    [s EXCEPT !.pop_event = s.fifo[s.tail],
              !.tail = (s.tail + 1) % INPUT_FIFO_SIZE,
              !.count = s.count - 1,
              !.pop_ret = 1,
              !.pop_expect = IF s.pending # <<>> THEN Head(s.pending) ELSE ZeroEvent,
              !.pending = IF s.pending # <<>> THEN Tail(s.pending) ELSE <<>>,
              !.burst = IF s.count - 1 = 0 THEN 0 ELSE BurstVoid,
              !.drained = @ + 1]

(* input_clear_events that forgets the write index *)
input_clear_events_keephead(s) ==
    [s EXCEPT !.fifo = ZeroFifo, !.tail = 0, !.count = 0,
              !.pending = <<>>, !.burst = 0, !.drained = 0]

input_clear_events(s) ==
    [s EXCEPT !.fifo = ZeroFifo, !.head = 0, !.tail = 0, !.count = 0,
              !.pending = <<>>, !.burst = 0, !.drained = 0]

KeyObsInit ==
    [run |-> 0, calls |-> 0, enq |-> 0, callAt |-> 0, fullAt |-> FALSE,
     glitchOnly |-> TRUE, everCalled |-> FALSE, lastPin |-> GPIO_PIN_SET,
     prevState |-> INPUT_STATE_IDLE]

(* the static initialisers, then input_init with both timer handles set *)
input_init ==
    [fifo |-> ZeroFifo, head |-> 0, tail |-> 0, count |-> 0, last |-> 0,
     tick |-> 0,
     key |-> [k \in Keys |-> [state |-> INPUT_STATE_IDLE, debounce_count |-> 0]],
     cnt |-> 0,
     pop_event |-> ZeroEvent, pop_ret |-> NoCall,
     push_ret |-> NoCall, pending |-> <<>>, pop_expect |-> ZeroEvent,
     burst |-> 0, drained |-> 0, unmasked |-> {},
     keyObs |-> [k \in Keys |-> KeyObsInit],
     encObs |-> [enq |-> 0, drop |-> 0]]

AllReleased == [k \in Keys |-> GPIO_PIN_SET]

(* the driver after n <= 32 scans taken every millisecond while the knob   *)
(* turns one step per scan, no key is touched and the main loop reads      *)
(* nothing: scan i stored the rotation event (+1, timestamp i) in slot     *)
(* i - 1.  SteadyReached states that SpecFifo reaches exactly these states. *)
SteadyEvent(i) == [event |-> INPUT_EVENT_ENCODER, value |-> 1, timestamp |-> i]

AfterScans(n) ==
    [input_init EXCEPT
        !.fifo = [i \in 0 .. (INPUT_FIFO_SIZE - 1) |->
                     IF i < n THEN SteadyEvent(i + 1) ELSE ZeroEvent],
        !.head = n % INPUT_FIFO_SIZE,
        !.count = n,
        !.last = n,
        !.tick = n,
        !.cnt = n,
        !.push_ret = IF n = 0 THEN NoCall ELSE 1,
        !.pending = [i \in 1 .. n |-> SteadyEvent(i)],
        !.burst = n,
        !.unmasked = IF n = 0 THEN {} ELSE {"fifo_count"},
        !.encObs = [enq |-> n, drop |-> 0]]

(* pop_event, pop_expect, pop_ret and count_ret observe the latest step    *)
(* only: a step that is not the call leaves them at "not called"           *)
NoResult(r) ==
    [r EXCEPT !.pop_event = ZeroEvent, !.pop_expect = ZeroEvent,
              !.pop_ret = NoCall]

Commit(r) ==
    /\ input_event_fifo' = r.fifo
    /\ fifo_head' = r.head
    /\ fifo_tail' = r.tail
    /\ fifo_count' = r.count
    /\ last_encoder_count' = r.last
    /\ system_tick' = r.tick
    /\ Key' = r.key
    /\ TIM_CNT' = r.cnt
    /\ pop_event' = r.pop_event
    /\ pop_ret' = r.pop_ret
    /\ push_ret' = r.push_ret
    /\ pending' = r.pending
    /\ pop_expect' = r.pop_expect
    /\ burst' = r.burst
    /\ drained' = r.drained
    /\ unmasked' = r.unmasked
    /\ keyObs' = r.keyObs
    /\ encObs' = r.encObs

InitInputWith(r, now, b, rd) ==
    /\ input_event_fifo = r.fifo
    /\ fifo_head = r.head
    /\ fifo_tail = r.tail
    /\ fifo_count = r.count
    /\ last_encoder_count = r.last
    /\ system_tick = r.tick
    /\ Key = r.key
    /\ TIM_CNT = r.cnt
    /\ pop_event = r.pop_event
    /\ pop_ret = r.pop_ret
    /\ push_ret = r.push_ret
    /\ pending = r.pending
    /\ pop_expect = r.pop_expect
    /\ burst = r.burst
    /\ drained = r.drained
    /\ unmasked = r.unmasked
    /\ keyObs = r.keyObs
    /\ encObs = r.encObs
    /\ uwTick = now
    /\ budget = b
    /\ reads = rd
    /\ pc_main = "idle"
    /\ op = "init"
    /\ count_ret = NoCall

(* ------------------------------------------------------------------ *)
(* Page manager                                                         *)
(* ------------------------------------------------------------------ *)
NavState ==
    [current_page |-> current_page, state |-> manager_state,
     page_from |-> page_from, page_to |-> page_to,
     anim_start_time |-> anim_start_time, anim_duration |-> anim_duration,
     history_stack |-> history_stack, history_depth |-> history_depth,
     last_refresh_time |-> last_refresh_time, page_exit |-> page_exit,
     calls |-> calls, last_enter |-> last_enter, sw |-> sw]

(* observer: the hooks a manager function calls, in order, with "start"    *)
(* logged where it sets the state to MANAGER_STATE_ANIMATING               *)
Call(m, c) ==
    [m EXCEPT !.calls = Append(@, c),
              !.last_enter = IF c[1] = "enter" THEN c[2] ELSE @]

HasExit(m, pg) == m.page_exit[pg]

(* the fields of g_page_manager and the hooks called so far *)
Core(m) ==
    [current_page |-> m.current_page, state |-> m.state,
     page_from |-> m.page_from, page_to |-> m.page_to,
     anim_start_time |-> m.anim_start_time, anim_duration |-> m.anim_duration,
     history_stack |-> m.history_stack, history_depth |-> m.history_depth,
     calls |-> m.calls]

(* the history stack below its top, oldest first *)
History(m) == [i \in 1 .. m.history_depth |-> m.history_stack[i - 1]]

(* _Switch_Page_Internal without the test for a transition in flight *)
Switch_Page_Internal_noguard(m, new_page, record_history, now) ==
    IF new_page = NULL \/ new_page = m.current_page
    THEN m
    ELSE LET m1 == IF /\ record_history
                      /\ m.current_page # NULL
                      /\ m.history_depth < PAGE_HISTORY_MAX_DEPTH
                   THEN [m EXCEPT !.history_stack[m.history_depth] = m.current_page,
                                  !.history_depth = m.history_depth + 1]
                   ELSE m
             m2 == IF m1.current_page # NULL /\ HasExit(m1, m1.current_page)
                   THEN Call(m1, <<"exit", m1.current_page>>)
                   ELSE m1
             m3 == IF HasEnter(new_page)
                   THEN Call(m2, <<"enter", new_page>>)
                   ELSE m2
         IN  Call([m3 EXCEPT !.page_from = m.current_page,
                             !.page_to = new_page,
                             !.anim_start_time = now,
                             !.anim_duration = ANIM_DURATION,
                             !.state = MANAGER_STATE_ANIMATING],
                  <<"start">>)

(* _Switch_Page_Internal that enters the new page before it exits the old *)
Switch_Page_Internal_enterfirst(m, new_page, record_history, now) ==
    IF new_page = NULL \/ new_page = m.current_page \/ m.state = MANAGER_STATE_ANIMATING
    THEN m
    ELSE LET m1 == IF /\ record_history
                      /\ m.current_page # NULL
                      /\ m.history_depth < PAGE_HISTORY_MAX_DEPTH
                   THEN [m EXCEPT !.history_stack[m.history_depth] = m.current_page,
                                  !.history_depth = m.history_depth + 1]
                   ELSE m
             m2 == IF HasEnter(new_page)
                   THEN Call(m1, <<"enter", new_page>>)
                   ELSE m1
             m3 == IF m2.current_page # NULL /\ HasExit(m2, m2.current_page)
                   THEN Call(m2, <<"exit", m2.current_page>>)
                   ELSE m2
         IN  Call([m3 EXCEPT !.page_from = m.current_page,
                             !.page_to = new_page,
                             !.anim_start_time = now,
                             !.anim_duration = ANIM_DURATION,
                             !.state = MANAGER_STATE_ANIMATING],
                  <<"start">>)

(* _Switch_Page_Internal without the test for the page already shown *)
Switch_Page_Internal_nosame(m, new_page, record_history, now) ==
    IF new_page = NULL \/ m.state = MANAGER_STATE_ANIMATING
    THEN m
    ELSE LET m1 == IF /\ record_history
                      /\ m.current_page # NULL
                      /\ m.history_depth < PAGE_HISTORY_MAX_DEPTH
                   THEN [m EXCEPT !.history_stack[m.history_depth] = m.current_page,
                                  !.history_depth = m.history_depth + 1]
                   ELSE m
             m2 == IF m1.current_page # NULL /\ HasExit(m1, m1.current_page)
                   THEN Call(m1, <<"exit", m1.current_page>>)
                   ELSE m1
             m3 == IF HasEnter(new_page)
                   THEN Call(m2, <<"enter", new_page>>)
                   ELSE m2
         IN  Call([m3 EXCEPT !.page_from = m.current_page,
                             !.page_to = new_page,
                             !.anim_start_time = now,
                             !.anim_duration = ANIM_DURATION,
                             !.state = MANAGER_STATE_ANIMATING],
                  <<"start">>)

(* _Switch_Page_Internal that drops the oldest history entry to make room *)
Switch_Page_Internal_evict(m, new_page, record_history, now) ==
    IF new_page = NULL \/ new_page = m.current_page \/ m.state = MANAGER_STATE_ANIMATING
    THEN m
    ELSE LET top == PAGE_HISTORY_MAX_DEPTH - 1
             m1 == IF record_history /\ m.current_page # NULL
                   THEN IF m.history_depth < PAGE_HISTORY_MAX_DEPTH
                        THEN [m EXCEPT !.history_stack[m.history_depth] = m.current_page,
                                       !.history_depth = m.history_depth + 1]
                        ELSE [m EXCEPT !.history_stack =
                                  [i \in 0 .. top |->
                                      IF i < top THEN m.history_stack[i + 1]
                                                 ELSE m.current_page]]
                   ELSE m
             m2 == IF m1.current_page # NULL /\ HasExit(m1, m1.current_page)
                   THEN Call(m1, <<"exit", m1.current_page>>)
                   ELSE m1
             m3 == IF HasEnter(new_page)
                   THEN Call(m2, <<"enter", new_page>>)
                   ELSE m2
         IN  Call([m3 EXCEPT !.page_from = m.current_page,
                             !.page_to = new_page,
                             !.anim_start_time = now,
                             !.anim_duration = ANIM_DURATION,
                             !.state = MANAGER_STATE_ANIMATING],
                  <<"start">>)

Switch_Page_Internal(m, new_page, record_history, now) ==
    IF new_page = NULL \/ new_page = m.current_page \/ m.state = MANAGER_STATE_ANIMATING
    THEN m
    ELSE LET m1 == IF /\ record_history
                      /\ m.current_page # NULL
                      /\ m.history_depth < PAGE_HISTORY_MAX_DEPTH
                   THEN [m EXCEPT !.history_stack[m.history_depth] = m.current_page,
                                  !.history_depth = m.history_depth + 1]
                   ELSE m
             m2 == IF m1.current_page # NULL /\ HasExit(m1, m1.current_page)
                   THEN Call(m1, <<"exit", m1.current_page>>)
                   ELSE m1
             m3 == IF HasEnter(new_page)
                   THEN Call(m2, <<"enter", new_page>>)
                   ELSE m2
         IN  Call([m3 EXCEPT !.page_from = m.current_page,
                             !.page_to = new_page,
                             !.anim_start_time = now,
                             !.anim_duration = ANIM_DURATION,
                             !.state = MANAGER_STATE_ANIMATING],
                  <<"start">>)

(* observer of one _Switch_Page_Internal call: its target and the manager  *)
(* before and after it                                                     *)
ObservedSwitch(m, new_page, record_history, now) ==
    LET r == Switch_Page_Internal(m, new_page, record_history, now) IN
    [r EXCEPT !.sw = [target |-> new_page, record |-> record_history,
                      pre |-> Core(m), post |-> Core(r)]]

Switch_Page(m, new_page, now) == ObservedSwitch(m, new_page, TRUE, now)

(* Go_Back_Page that falls back to the home page on an empty history *)
Go_Back_Page_home(m, now) ==
    IF m.history_depth > 0
    THEN LET d == m.history_depth - 1 IN
         ObservedSwitch([m EXCEPT !.history_depth = d],
                        m.history_stack[d], FALSE, now)
    ELSE ObservedSwitch(m, g_page_main, FALSE, now)

(* Go_Back_Page that reads the top of the history and leaves it there *)
Go_Back_Page_keep(m, now) ==
    IF m.history_depth > 0
    THEN ObservedSwitch(m, m.history_stack[m.history_depth - 1], FALSE, now)
    ELSE m

Go_Back_Page(m, now) ==
    IF m.history_depth > 0
    THEN LET d == m.history_depth - 1 IN
         ObservedSwitch([m EXCEPT !.history_depth = d],
                        m.history_stack[d], FALSE, now)
    ELSE m

Page_Manager_Go_Home(m) ==
    IF m.current_page = g_page_main /\ m.state = MANAGER_STATE_IDLE
    THEN m
    ELSE LET m1 == IF m.current_page # NULL /\ HasExit(m, m.current_page)
                   THEN Call(m, <<"exit", m.current_page>>)
                   ELSE m
             m2 == [m1 EXCEPT !.history_depth = 0,
                              !.current_page = g_page_main,
                              !.state = MANAGER_STATE_IDLE]
         IN  IF HasEnter(g_page_main)
             THEN Call(m2, <<"enter", g_page_main>>)
             ELSE m2

(* input_get_event as the main loop runs it when no scan interrupts it:    *)
(* the test of fifo_count before __disable_irq(), then the critical section *)
input_get_event(s) ==
    LET s1 == [s EXCEPT !.unmasked = @ \cup {"fifo_count"}] IN
    IF s1.count = 0 THEN [s1 EXCEPT !.pop_ret = 0] ELSE fifo_pop_event(s1)

(* one u8g2_FirstPage / u8g2_NextPage picture loop is logged as one draw   *)
DrawIf(m, pg, x) ==
    IF pg # NULL /\ HasDraw(pg) THEN Call(m, <<"draw", pg, x>>) ELSE m

LoopIf(m, pg) ==
    IF pg # NULL /\ HasLoop(pg) THEN Call(m, <<"loop", pg>>) ELSE m

(* Single-precision arithmetic of the slide: a float is the pair of its    *)
(* 24-bit significand m and its scale p, with value m / 2^p.               *)
(* FloatBits continues the binary long division of a numerator by d: q is *)
(* the quotient so far, r the remainder, p the number of fraction bits.    *)
RECURSIVE FloatBits(_, _, _, _)
FloatBits(q, r, d, p) ==
    IF q >= TwoPow23
    THEN [q |-> q, r |-> r, p |-> p]
    ELSE CHOOSE b \in {FloatBits(t[1], t[2], d, p + 1) :
                          t \in {<<2 * q + (IF 2 * r >= d THEN 1 ELSE 0),
                                   (2 * r) % d>>}} : TRUE

(* (float)n / d for 0 <= n < 2^24 * d and 0 < d < 2^24: both conversions   *)
(* are exact and the division rounds to nearest, ties to even              *)
FloatQuotient(n, d) ==
    IF n = 0
    THEN [m |-> 0, p |-> 0]
    ELSE CHOOSE f \in
             {LET up == 2 * b.r > d \/ (2 * b.r = d /\ b.q % 2 = 1)
              IN  [m |-> IF up THEN b.q + 1 ELSE b.q, p |-> b.p] :
                 b \in {FloatBits(n \div d, n % d, d, 0)}} : TRUE

(* (int16_t)(w * f) for an int16_t w with 0 <= w <= 128 and a float        *)
(* 0 <= f < 1: the product rounds to 24 bits, ties to even, and the        *)
(* conversion drops the fraction                                           *)
FloatScaled(w, f) ==
    LET prod == w * f.m
        s == CHOOSE k \in 0 .. 8 : prod \div (2 ^ k) < 2 * TwoPow23
                                    /\ \A j \in 0 .. (k - 1) :
                                           prod \div (2 ^ j) >= 2 * TwoPow23
        low == prod % (2 ^ s)
        kept == prod \div (2 ^ s)
        up == 2 * low > 2 ^ s \/ (2 * low = 2 ^ s /\ kept % 2 = 1)
        m == IF up THEN kept + 1 ELSE kept
        p == f.p - s
    IN  IF p > 30 THEN 0
        ELSE IF p >= 0 THEN m \div (2 ^ p)
        ELSE m * (2 ^ (0 - p))

(* SlideShift that rounds the product to the nearest pixel *)
SlideShift_round(screen_width, elapsed, duration) ==
    (2 * screen_width * elapsed + duration) \div (2 * duration)

(* (int16_t)(screen_width * progress) with                                 *)
(* progress = (float)elapsed / anim_duration                               *)
SlideShift(screen_width, elapsed, duration) ==
    CHOOSE x \in {FloatScaled(screen_width, progress) :
                    progress \in {FloatQuotient(elapsed, duration)}} : TRUE

(* Page_Manager_Loop that ends a transition at the first poll *)
Page_Manager_Loop_early(m, s, now) ==
    IF m.state = MANAGER_STATE_ANIMATING
    THEN LET elapsed == now - m.anim_start_time IN
         IF elapsed >= 0
         THEN [m |-> DrawIf([m EXCEPT !.state = MANAGER_STATE_IDLE,
                                      !.current_page = m.page_to],
                            m.page_to, 0),
               s |-> s]
         ELSE LET shift == SlideShift(DisplayWidth, elapsed, m.anim_duration)
                  from_x == 0 - shift
                  to_x == DisplayWidth - shift
              IN  [m |-> DrawIf(DrawIf(LoopIf(LoopIf(m, m.page_from), m.page_to),
                                       m.page_from, from_x),
                                m.page_to, to_x),
                   s |-> s]
    ELSE LET current == m.current_page IN
         IF current = NULL
         THEN [m |-> m, s |-> s]
         ELSE LET s1 == input_get_event(s)
                  m1 == IF s1.pop_ret = 1 /\ HasAction(current)
                        THEN Call(m, <<"action", current, s1.pop_event.event>>)
                        ELSE m
                  m2 == LoopIf(m1, current)
              IN  IF now - m2.last_refresh_time[current] >= refresh_rate_ms(current)
                  THEN [m |-> DrawIf([m2 EXCEPT !.last_refresh_time[current] = now],
                                     current, 0),
                        s |-> s1]
                  ELSE [m |-> m2, s |-> s1]

(* Page_Manager_Loop polling the queue during a transition as well *)
Page_Manager_Loop_poll(m, s, now) ==
    IF m.state = MANAGER_STATE_ANIMATING
    THEN LET elapsed == now - m.anim_start_time IN
         IF elapsed >= m.anim_duration
         THEN [m |-> DrawIf([m EXCEPT !.state = MANAGER_STATE_IDLE,
                                      !.current_page = m.page_to],
                            m.page_to, 0),
               s |-> s]
         ELSE LET shift == SlideShift(DisplayWidth, elapsed, m.anim_duration)
                  from_x == 0 - shift
                  to_x == DisplayWidth - shift
                  sa == input_get_event(s)
                  ma == IF sa.pop_ret = 1
                        THEN Call(m, <<"action", m.page_to, sa.pop_event.event>>)
                        ELSE m
              IN  [m |-> DrawIf(DrawIf(LoopIf(LoopIf(ma, m.page_from), m.page_to),
                                       m.page_from, from_x),
                                m.page_to, to_x),
                   s |-> sa]
    ELSE LET current == m.current_page IN
         IF current = NULL
         THEN [m |-> m, s |-> s]
         ELSE LET s1 == input_get_event(s)
                  m1 == IF s1.pop_ret = 1 /\ HasAction(current)
                        THEN Call(m, <<"action", current, s1.pop_event.event>>)
                        ELSE m
                  m2 == LoopIf(m1, current)
              IN  IF now - m2.last_refresh_time[current] >= refresh_rate_ms(current)
                  THEN [m |-> DrawIf([m2 EXCEPT !.last_refresh_time[current] = now],
                                     current, 0),
                        s |-> s1]
                  ELSE [m |-> m2, s |-> s1]

(* Page_Manager_Loop on the manager m and the input driver s; `now` is the *)
(* value of HAL_GetTick(), which stays below 2^32 so that the unsigned     *)
(* differences do not wrap                                                 *)
Page_Manager_Loop(m, s, now) ==
    IF m.state = MANAGER_STATE_ANIMATING
    THEN LET elapsed == now - m.anim_start_time IN
         IF elapsed >= m.anim_duration
         THEN [m |-> DrawIf([m EXCEPT !.state = MANAGER_STATE_IDLE,
                                      !.current_page = m.page_to],
                            m.page_to, 0),
               s |-> s]
         ELSE LET shift == SlideShift(DisplayWidth, elapsed, m.anim_duration)
                  from_x == 0 - shift
                  to_x == DisplayWidth - shift
              IN  [m |-> DrawIf(DrawIf(LoopIf(LoopIf(m, m.page_from), m.page_to),
                                       m.page_from, from_x),
                                m.page_to, to_x),
                   s |-> s]
    ELSE LET current == m.current_page IN
         IF current = NULL
         THEN [m |-> m, s |-> s]
         ELSE LET s1 == input_get_event(s)
                  m1 == IF s1.pop_ret = 1 /\ HasAction(current)
                        THEN Call(m, <<"action", current, s1.pop_event.event>>)
                        ELSE m
                  m2 == LoopIf(m1, current)
              IN  IF now - m2.last_refresh_time[current] >= refresh_rate_ms(current)
                  THEN [m |-> DrawIf([m2 EXCEPT !.last_refresh_time[current] = now],
                                     current, 0),
                        s |-> s1]
                  ELSE [m |-> m2, s |-> s1]

NoSw == [target |-> NULL]

(* the zero-initialised g_page_manager after Page_Manager_Init; hooks says *)
(* which page objects set their exit pointer                               *)
Page_Manager_Init(hooks) ==
    Call([current_page |-> g_page_main, state |-> MANAGER_STATE_IDLE,
          page_from |-> NULL, page_to |-> NULL,
          anim_start_time |-> 0, anim_duration |-> 0,
          history_stack |-> [i \in 0 .. (PAGE_HISTORY_MAX_DEPTH - 1) |-> NULL],
          history_depth |-> 0,
          last_refresh_time |-> [pg \in Pages |-> 0],
          page_exit |-> hooks,
          calls |-> <<>>, last_enter |-> NULL, sw |-> NoSw],
         <<"enter", g_page_main>>)

(* no page of the repository sets exit; Page_Base provides the pointer and *)
(* the manager tests it, so the manager is also run on pages that set it   *)
NoExitHooks == [pg \in Pages |-> FALSE]
AllExitHooks == [pg \in Pages |-> TRUE]
ExitConfigs == {NoExitHooks, AllExitHooks}

CommitNav(m) ==
    /\ current_page' = m.current_page
    /\ manager_state' = m.state
    /\ page_from' = m.page_from
    /\ page_to' = m.page_to
    /\ anim_start_time' = m.anim_start_time
    /\ anim_duration' = m.anim_duration
    /\ history_stack' = m.history_stack
    /\ history_depth' = m.history_depth
    /\ last_refresh_time' = m.last_refresh_time
    /\ page_exit' = m.page_exit
    /\ calls' = m.calls
    /\ last_enter' = m.last_enter
    /\ sw' = m.sw

NoRoundTrip == [phase |-> "none"]

InitNavWith(m) ==
    /\ current_page = m.current_page
    /\ manager_state = m.state
    /\ page_from = m.page_from
    /\ page_to = m.page_to
    /\ anim_start_time = m.anim_start_time
    /\ anim_duration = m.anim_duration
    /\ history_stack = m.history_stack
    /\ history_depth = m.history_depth
    /\ last_refresh_time = m.last_refresh_time
    /\ page_exit = m.page_exit
    /\ calls = m.calls
    /\ last_enter = m.last_enter
    /\ sw = m.sw
    /\ nav_arg = NULL
    /\ pre_depth = 0
    /\ roundTrip = NoRoundTrip

(* ------------------------------------------------------------------ *)
(* Application: settings, list-selector pages, main loop                *)
(* ------------------------------------------------------------------ *)
(* The hooks of the pages and the functions of app_main.c work on the      *)
(* record x: the page manager x.m, the input driver x.s, the application   *)
(* data x.a and the value x.now of HAL_GetTick(), read once per pass of    *)
(* the main loop; x.bus is what the I2C bus does during the pass and x.ret *)
(* is the value the latest app_settings_save call returned.  The highlight *)
(* coordinates of the pages are used by the draw hooks only and are left   *)
(* out, and so are the magic number and the checksum of Settings_t, which  *)
(* are functions of the three settings.                                    *)
AppState ==
    [settings |-> g_app_settings,
     last_activity_time |-> last_activity_time,
     is_screen_on |-> is_screen_on,
     auto_off_timeout_ms |-> auto_off_timeout_ms,
     auto_off |-> g_page_auto_off_data,
     language |-> g_page_language_data,
     dst |-> g_page_dst_data,
     date |-> g_page_date_data,
     time |-> g_page_time_data,
     rtc |-> ds3231,
     eeprom |-> at24c32,
     obs |-> appObs]

(* (int8_t) of an int *)
ToInt8(v) == LET u == v % TwoPow8 IN IF u >= TwoPow7 THEN u - TwoPow8 ELSE u

(* a % b of C for b > 0: the remainder has the sign of a *)
CRem(a, b) == IF a >= 0 THEN a % b ELSE 0 - ((0 - a) % b)

PageData(a, pg) ==
    CASE pg = g_page_auto_off -> a.auto_off
      [] pg = g_page_language -> a.language
      [] pg = g_page_time_dst -> a.dst
      [] pg = g_page_time_date -> a.date
      [] pg = g_page_time_time -> a.time
      [] OTHER -> [state |-> 0]

(* the sub-state in which a list or picker page shows its result message *)
ShowMsgState(pg) ==
    CASE pg = g_page_auto_off -> AUTO_OFF_STATE_SHOW_MSG
      [] pg = g_page_language -> LANGUAGE_STATE_SHOW_MSG
      [] pg = g_page_time_dst -> DST_STATE_SHOW_MSG
      [] pg = g_page_time_date -> DATE_STATE_SHOW_MSG
      [] pg = g_page_time_time -> TIME_STATE_SHOW_MSG

(* the sub-state in which a list or picker page takes every input *)
IdleState(pg) ==
    CASE pg = g_page_auto_off -> AUTO_OFF_STATE_IDLE
      [] pg = g_page_language -> LANGUAGE_STATE_IDLE
      [] pg = g_page_time_dst -> DST_STATE_IDLE
      [] pg = g_page_time_date -> DATE_STATE_FOCUSED
      [] pg = g_page_time_time -> TIME_STATE_FOCUSED

(* decToBcd and bcdToDec of DS3231.c; the argument and the result are     *)
(* uint8_t                                                                 *)
decToBcd(val) == (((val % TwoPow8) \div 10) * 16 + ((val % TwoPow8) % 10)) % TwoPow8

bcdToDec(val) == ((val \div 16) * 10 + (val % 16)) % TwoPow8

(* DS3231_SetTime: the seven registers written from a Time_t *)
DS3231_SetTime(time) ==
    [second |-> decToBcd(time.second),
     minute |-> decToBcd(time.minute),
     hour |-> decToBcd(time.hour),
     week |-> decToBcd(time.week),
     day |-> decToBcd(time.day),
     month |-> decToBcd(time.month),
     year |-> decToBcd(time.year - 2000)]

(* DS3231_GetTime: the Time_t read from the seven registers *)
DS3231_GetTime(regs) ==
    [second |-> bcdToDec(regs.second),
     minute |-> bcdToDec(regs.minute),
     hour |-> bcdToDec(regs.hour),
     week |-> bcdToDec(regs.week),
     day |-> bcdToDec(regs.day),
     month |-> bcdToDec(regs.month),
     year |-> bcdToDec(regs.year) + 2000]

(* What the I2C bus does in one app_settings_save call: the page write is  *)
(* stored or not; the read-back delivers the stored bytes, or fails and    *)
(* leaves temp_read_back uninitialised, with bytes that compare equal to   *)
(* the bytes written or not.                                               *)
SaveOutcomes == [write : BOOLEAN, read : {"ok", "equal", "differs"}]

SaveOk == [write |-> TRUE, read |-> "ok"]

(* app_settings_save(&g_app_settings): neither HAL status is tested, the   *)
(* result is the memcmp of the copy written with the copy read back        *)
app_settings_save(x) ==
    LET temp_to_write == x.a.settings
        stored == IF x.bus.write THEN temp_to_write ELSE x.a.eeprom
        same == CASE x.bus.read = "ok" -> stored = temp_to_write
                  [] x.bus.read = "equal" -> TRUE
                  [] OTHER -> FALSE
    IN  [x EXCEPT !.a.eeprom = stored,
                  !.a.obs.saves = @ + 1,
                  !.ret = same]

(* the hook writes the RTC *)
HookSetTime(x, time) ==
    [x EXCEPT !.a.rtc = DS3231_SetTime(time), !.a.obs.sets = @ + 1]

Page_Auto_Off_Enter(x) ==
    LET sel == x.a.settings.auto_off
        top == IF sel >= VISIBLE_ITEMS THEN sel - VISIBLE_ITEMS + 1 ELSE 0
    IN  [x EXCEPT !.a.auto_off.state = AUTO_OFF_STATE_IDLE,
                  !.a.auto_off.selected_index = sel,
                  !.a.auto_off.viewport_top_index = top]

Page_Language_Enter(x) ==
    [x EXCEPT !.a.language.state = LANGUAGE_STATE_IDLE,
              !.a.language.selected_index = x.a.settings.language]

Page_Dst_Enter(x) ==
    [x EXCEPT !.a.dst.state = DST_STATE_IDLE,
              !.a.dst.selected_index = x.a.settings.dst_enabled]

(* Page_Enter of page_time_date.c *)
Page_Time_Date_Enter(x) ==
    [x EXCEPT !.a.date.temp_date = DS3231_GetTime(x.a.rtc),
              !.a.date.focus_index = 0,
              !.a.date.state = DATE_STATE_ENTERING,
              !.a.date.anim_start_time = x.now]

(* Page_Enter of page_time_time.c *)
Page_Time_Time_Enter(x) ==
    [x EXCEPT !.a.time.temp_time = DS3231_GetTime(x.a.rtc),
              !.a.time.focus_index = 0,
              !.a.time.state = TIME_STATE_ENTERING,
              !.a.time.anim_start_time = x.now]

(* the enter hook of page pg; the hooks of the menu pages set up their     *)
(* own highlight only                                                      *)
PageEnter(x, pg) ==
    CASE pg = g_page_auto_off -> Page_Auto_Off_Enter(x)
      [] pg = g_page_language -> Page_Language_Enter(x)
      [] pg = g_page_time_dst -> Page_Dst_Enter(x)
      [] pg = g_page_time_date -> Page_Time_Date_Enter(x)
      [] pg = g_page_time_time -> Page_Time_Time_Enter(x)
      [] OTHER -> x

(* a manager call made by a hook or by app_main.c: m2 is the manager after *)
(* the call, and the page a switch has entered runs its enter hook         *)
AfterManagerCall(x, m2) ==
    LET entered == SelectSeq(SubSeq(m2.calls, Len(x.m.calls) + 1, Len(m2.calls)),
                             LAMBDA c : c[1] = "enter")
        x1 == [x EXCEPT !.m = m2]
    IN  IF entered = <<>> THEN x1 ELSE PageEnter(x1, entered[1][2])

(* Go_Back_Page() called by a hook *)
HookGoBack(x) ==
    AfterManagerCall([x EXCEPT !.a.obs.backs = @ + 1], Go_Back_Page(x.m, x.now))

(* Page_Auto_Off_Loop that keeps the message state when it goes back *)
Page_Auto_Off_Loop_again(x) ==
    LET d == x.a.auto_off IN
    IF d.state = AUTO_OFF_STATE_SHOW_MSG
    THEN IF x.now - d.msg_start_time >= MSG_DURATION
         THEN HookGoBack(x)
         ELSE x
    ELSE IF d.state = AUTO_OFF_STATE_IDLE
    THEN x
    ELSE IF x.now - d.anim_start_time >= d.anim_duration
         THEN [x EXCEPT !.a.auto_off.state = AUTO_OFF_STATE_IDLE]
         ELSE x

Page_Auto_Off_Loop(x) ==
    LET d == x.a.auto_off IN
    IF d.state = AUTO_OFF_STATE_SHOW_MSG
    THEN IF x.now - d.msg_start_time >= MSG_DURATION
         THEN HookGoBack([x EXCEPT !.a.auto_off.state = AUTO_OFF_STATE_IDLE])
         ELSE x
    ELSE IF d.state = AUTO_OFF_STATE_IDLE
    THEN x
    ELSE IF x.now - d.anim_start_time >= d.anim_duration
         THEN [x EXCEPT !.a.auto_off.state = AUTO_OFF_STATE_IDLE]
         ELSE x

Page_Language_Loop(x) ==
    LET d == x.a.language IN
    IF d.state = LANGUAGE_STATE_SHOW_MSG
    THEN IF x.now - d.msg_start_time >= MSG_DURATION
         THEN HookGoBack([x EXCEPT !.a.language.state = LANGUAGE_STATE_IDLE])
         ELSE x
    ELSE IF d.state # LANGUAGE_STATE_ANIMATING
    THEN x
    ELSE IF x.now - d.anim_start_time >= d.anim_duration
         THEN [x EXCEPT !.a.language.state = LANGUAGE_STATE_IDLE]
         ELSE x

Page_Dst_Loop(x) ==
    LET d == x.a.dst IN
    IF d.state = DST_STATE_SHOW_MSG
    THEN IF x.now - d.msg_start_time >= MSG_DURATION
         THEN HookGoBack([x EXCEPT !.a.dst.state = DST_STATE_IDLE])
         ELSE x
    ELSE IF d.state # DST_STATE_ANIMATING
    THEN x
    ELSE IF x.now - d.anim_start_time >= d.anim_duration
         THEN [x EXCEPT !.a.dst.state = DST_STATE_IDLE]
         ELSE x

(* Page_Auto_Off_Action scrolling one row short when it moves down *)
Page_Auto_Off_Action_bottom(x, event) ==
    LET d == x.a.auto_off IN
    IF d.state # AUTO_OFF_STATE_IDLE /\ d.state # AUTO_OFF_STATE_SHOW_MSG
    THEN x
    ELSE IF d.state = AUTO_OFF_STATE_SHOW_MSG /\ event.event # INPUT_EVENT_BACK_PRESSED
    THEN x
    ELSE CASE event.event = INPUT_EVENT_ENCODER ->
                LET sum == ToInt8(d.selected_index + event.value)
                    new == IF sum >= AUTO_OFF_ITEM_COUNT
                           THEN CRem(sum, AUTO_OFF_ITEM_COUNT)
                           ELSE IF sum < 0
                           THEN CRem(CRem(sum, AUTO_OFF_ITEM_COUNT) + AUTO_OFF_ITEM_COUNT,
                                     AUTO_OFF_ITEM_COUNT)
                           ELSE sum
                    top == IF new < d.viewport_top_index
                           THEN new
                           ELSE IF new >= d.viewport_top_index + VISIBLE_ITEMS
                           THEN new - VISIBLE_ITEMS
                           ELSE d.viewport_top_index
                IN  IF new = d.selected_index
                    THEN x
                    ELSE [x EXCEPT !.a.auto_off.selected_index = new,
                                   !.a.auto_off.viewport_top_index = top,
                                   !.a.auto_off.state = AUTO_OFF_STATE_ANIMATING_HIGHLIGHT,
                                   !.a.auto_off.anim_duration =
                                       IF top # d.viewport_top_index
                                       THEN LIST_SCROLL_DURATION
                                       ELSE HIGHLIGHT_DURATION,
                                   !.a.auto_off.anim_start_time = x.now]
           [] event.event = INPUT_EVENT_COMFIRM_PRESSED ->
                LET y == app_settings_save(
                             [x EXCEPT !.a.settings.auto_off = d.selected_index])
                IN  [y EXCEPT !.a.auto_off.msg_text =
                                  IF y.ret THEN "Settings Saved!" ELSE "Save Failed!",
                              !.a.auto_off.state = AUTO_OFF_STATE_SHOW_MSG,
                              !.a.auto_off.msg_start_time = x.now]
           [] event.event = INPUT_EVENT_BACK_PRESSED -> HookGoBack(x)
           [] OTHER -> x

Page_Auto_Off_Action(x, event) ==
    LET d == x.a.auto_off IN
    IF d.state # AUTO_OFF_STATE_IDLE /\ d.state # AUTO_OFF_STATE_SHOW_MSG
    THEN x
    ELSE IF d.state = AUTO_OFF_STATE_SHOW_MSG /\ event.event # INPUT_EVENT_BACK_PRESSED
    THEN x
    ELSE CASE event.event = INPUT_EVENT_ENCODER ->
                LET sum == ToInt8(d.selected_index + event.value)
                    new == IF sum >= AUTO_OFF_ITEM_COUNT
                           THEN CRem(sum, AUTO_OFF_ITEM_COUNT)
                           ELSE IF sum < 0
                           THEN CRem(CRem(sum, AUTO_OFF_ITEM_COUNT) + AUTO_OFF_ITEM_COUNT,
                                     AUTO_OFF_ITEM_COUNT)
                           ELSE sum
                    top == IF new < d.viewport_top_index
                           THEN new
                           ELSE IF new >= d.viewport_top_index + VISIBLE_ITEMS
                           THEN new - VISIBLE_ITEMS + 1
                           ELSE d.viewport_top_index
                IN  IF new = d.selected_index
                    THEN x
                    ELSE [x EXCEPT !.a.auto_off.selected_index = new,
                                   !.a.auto_off.viewport_top_index = top,
                                   !.a.auto_off.state = AUTO_OFF_STATE_ANIMATING_HIGHLIGHT,
                                   !.a.auto_off.anim_duration =
                                       IF top # d.viewport_top_index
                                       THEN LIST_SCROLL_DURATION
                                       ELSE HIGHLIGHT_DURATION,
                                   !.a.auto_off.anim_start_time = x.now]
           [] event.event = INPUT_EVENT_COMFIRM_PRESSED ->
                LET y == app_settings_save(
                             [x EXCEPT !.a.settings.auto_off = d.selected_index])
                IN  [y EXCEPT !.a.auto_off.msg_text =
                                  IF y.ret THEN "Settings Saved!" ELSE "Save Failed!",
                              !.a.auto_off.state = AUTO_OFF_STATE_SHOW_MSG,
                              !.a.auto_off.msg_start_time = x.now]
           [] event.event = INPUT_EVENT_BACK_PRESSED -> HookGoBack(x)
           [] OTHER -> x

Page_Language_Action(x, event) ==
    LET d == x.a.language IN
    IF d.state = LANGUAGE_STATE_SHOW_MSG \/ d.state = LANGUAGE_STATE_ANIMATING
    THEN x
    ELSE CASE event.event = INPUT_EVENT_ENCODER ->
                LET sum == ToInt8(d.selected_index + event.value)
                    new == IF sum >= LANGUAGE_ITEM_COUNT THEN 0
                           ELSE IF sum < 0 THEN LANGUAGE_ITEM_COUNT - 1
                           ELSE sum
                IN  IF new = d.selected_index
                    THEN x
                    ELSE [x EXCEPT !.a.language.selected_index = new,
                                   !.a.language.state = LANGUAGE_STATE_ANIMATING,
                                   !.a.language.anim_start_time = x.now,
                                   !.a.language.anim_duration = TOGGLE_DURATION]
           [] event.event = INPUT_EVENT_COMFIRM_PRESSED ->
                LET y == app_settings_save(
                             [x EXCEPT !.a.settings.language = d.selected_index])
                IN  [y EXCEPT !.a.language.msg_text =
                                  IF y.ret THEN "Settings Saved!" ELSE "Save Failed!",
                              !.a.language.state = LANGUAGE_STATE_SHOW_MSG,
                              !.a.language.msg_start_time = x.now]
           [] event.event = INPUT_EVENT_BACK_PRESSED -> HookGoBack(x)
           [] OTHER -> x

(* Page_Dst_Action that calls app_settings_save again when it has failed *)
Page_Dst_Action_retry(x, event) ==
    LET d == x.a.dst IN
    IF d.state = DST_STATE_SHOW_MSG \/ d.state = DST_STATE_ANIMATING
    THEN x
    ELSE CASE event.event = INPUT_EVENT_ENCODER ->
                LET sum == ToInt8(d.selected_index + event.value)
                    new == IF sum >= DST_ITEM_COUNT THEN 0
                           ELSE IF sum < 0 THEN DST_ITEM_COUNT - 1
                           ELSE sum
                IN  IF new = d.selected_index
                    THEN x
                    ELSE [x EXCEPT !.a.dst.selected_index = new,
                                   !.a.dst.state = DST_STATE_ANIMATING,
                                   !.a.dst.anim_start_time = x.now,
                                   !.a.dst.anim_duration = TOGGLE_DURATION]
           [] event.event = INPUT_EVENT_COMFIRM_PRESSED ->
                LET y1 == app_settings_save(
                              [x EXCEPT !.a.settings.dst_enabled =
                                            IF d.selected_index # 0 THEN 1 ELSE 0])
                    y == IF y1.ret THEN y1 ELSE app_settings_save(y1)
                IN  [y EXCEPT !.a.dst.msg_text =
                                  IF y.ret THEN "Settings Saved!" ELSE "Save Failed!",
                              !.a.dst.state = DST_STATE_SHOW_MSG,
                              !.a.dst.msg_start_time = x.now]
           [] event.event = INPUT_EVENT_BACK_PRESSED -> HookGoBack(x)
           [] OTHER -> x

Page_Dst_Action(x, event) ==
    LET d == x.a.dst IN
    IF d.state = DST_STATE_SHOW_MSG \/ d.state = DST_STATE_ANIMATING
    THEN x
    ELSE CASE event.event = INPUT_EVENT_ENCODER ->
                LET sum == ToInt8(d.selected_index + event.value)
                    new == IF sum >= DST_ITEM_COUNT THEN 0
                           ELSE IF sum < 0 THEN DST_ITEM_COUNT - 1
                           ELSE sum
                IN  IF new = d.selected_index
                    THEN x
                    ELSE [x EXCEPT !.a.dst.selected_index = new,
                                   !.a.dst.state = DST_STATE_ANIMATING,
                                   !.a.dst.anim_start_time = x.now,
                                   !.a.dst.anim_duration = TOGGLE_DURATION]
           [] event.event = INPUT_EVENT_COMFIRM_PRESSED ->
                LET y == app_settings_save(
                             [x EXCEPT !.a.settings.dst_enabled =
                                           IF d.selected_index # 0 THEN 1 ELSE 0])
                IN  [y EXCEPT !.a.dst.msg_text =
                                  IF y.ret THEN "Settings Saved!" ELSE "Save Failed!",
                              !.a.dst.state = DST_STATE_SHOW_MSG,
                              !.a.dst.msg_start_time = x.now]
           [] event.event = INPUT_EVENT_BACK_PRESSED -> HookGoBack(x)
           [] OTHER -> x

(* ------------------------------------------------------------------ *)
(* Date page and time page.  The fields that only the draw hooks read   *)
(* (anim_progress, slot_anim_y_offset, slot_anim_direction, msg_text)   *)
(* and should_save_on_exit, which nothing reads, are left out.          *)
(* ------------------------------------------------------------------ *)
(* is_leap_year without the rule for the years divisible by 400 *)
is_leap_year_century(year) ==
    year % 4 = 0 /\ year % 100 # 0

is_leap_year(year) ==
    (year % 4 = 0 /\ year % 100 # 0) \/ year % 400 = 0

get_max_days_in_month(year, month) ==
    IF month = 2
    THEN (IF is_leap_year(year) THEN 29 ELSE 28)
    ELSE IF month = 4 \/ month = 6 \/ month = 9 \/ month = 11
    THEN 30
    ELSE 31

(* get_days_in_month of DS3231.c *)
get_days_in_month(year, month) ==
    IF month = 2
    THEN LET is_leap == (year % 4 = 0 /\ year % 100 # 0) \/ year % 400 = 0
         IN  IF is_leap THEN 29 ELSE 28
    ELSE IF month = 4 \/ month = 6 \/ month = 9 \/ month = 11
    THEN 30
    ELSE 31

(* Page_Loop of page_time_date.c *)
Page_Time_Date_Loop(x) ==
    LET d == x.a.date
        elapsed == x.now - d.anim_start_time
    IN  CASE d.state = DATE_STATE_ENTERING ->
               IF elapsed >= ANIM_DURATION_ENTER
               THEN [x EXCEPT !.a.date.state = DATE_STATE_ZOOMING_IN,
                              !.a.date.anim_start_time = x.now]
               ELSE x
          [] d.state = DATE_STATE_ZOOMING_IN ->
               IF elapsed >= ANIM_DURATION_ZOOM
               THEN [x EXCEPT !.a.date.state = DATE_STATE_FOCUSED]
               ELSE x
          [] d.state = DATE_STATE_ZOOMING_OUT ->
               IF elapsed >= ANIM_DURATION_ZOOM
               THEN [x EXCEPT !.a.date.state = DATE_STATE_SWITCHING]
               ELSE x
          [] d.state = DATE_STATE_SWITCHING ->
               [x EXCEPT !.a.date.focus_index = (d.focus_index + 1) % SLOT_ITEM_COUNT,
                         !.a.date.state = DATE_STATE_ZOOMING_IN,
                         !.a.date.anim_start_time = x.now]
          [] d.state = DATE_STATE_SLOT_ROLLING ->
               IF x.now - d.slot_anim_start_time >= SLOT_DURATION
               THEN [x EXCEPT !.a.date.state = DATE_STATE_FOCUSED]
               ELSE x
          [] d.state = DATE_STATE_SHOW_MSG ->
               IF x.now - d.msg_start_time >= MSG_DURATION
               THEN HookGoBack([x EXCEPT !.a.date.state = DATE_STATE_FOCUSED])
               ELSE x
          [] OTHER -> x

(* DateRotate that wraps the day to 1 when the month has become shorter *)
DateRotate_wrap(temp, focus_index, value) ==
    LET y1 == (temp.year + value) % TwoPow16
        y2 == IF y1 > 2099 THEN 2000 ELSE y1
        y3 == IF y2 < 2000 THEN 2099 ELSE y2
        m1 == (temp.month + value) % TwoPow8
        m2 == IF m1 > 12 THEN 1 ELSE m1
        m3 == IF m2 < 1 THEN 12 ELSE m2
        max_days == get_max_days_in_month(temp.year, temp.month)
        d1 == (temp.day + value) % TwoPow8
        d2 == IF d1 > max_days THEN 1 ELSE d1
        d3 == IF d2 < 1 THEN max_days ELSE d2
        t1 == CASE focus_index = 0 -> [temp EXCEPT !.year = y3]
                [] focus_index = 1 -> [temp EXCEPT !.month = m3]
                [] focus_index = 2 -> [temp EXCEPT !.day = d3]
                [] OTHER -> temp
        max_days_after_change == get_max_days_in_month(t1.year, t1.month)
    IN  IF t1.day > max_days_after_change
        THEN [t1 EXCEPT !.day = 1]
        ELSE t1

(* the ENCODER case of Page_Action of page_time_date.c: year is uint16_t,  *)
(* month and day are uint8_t, value is int16_t                             *)
DateRotate(temp, focus_index, value) ==
    LET y1 == (temp.year + value) % TwoPow16
        y2 == IF y1 > 2099 THEN 2000 ELSE y1
        y3 == IF y2 < 2000 THEN 2099 ELSE y2
        m1 == (temp.month + value) % TwoPow8
        m2 == IF m1 > 12 THEN 1 ELSE m1
        m3 == IF m2 < 1 THEN 12 ELSE m2
        max_days == get_max_days_in_month(temp.year, temp.month)
        d1 == (temp.day + value) % TwoPow8
        d2 == IF d1 > max_days THEN 1 ELSE d1
        d3 == IF d2 < 1 THEN max_days ELSE d2
        t1 == CASE focus_index = 0 -> [temp EXCEPT !.year = y3]
                [] focus_index = 1 -> [temp EXCEPT !.month = m3]
                [] focus_index = 2 -> [temp EXCEPT !.day = d3]
                [] OTHER -> temp
        max_days_after_change == get_max_days_in_month(t1.year, t1.month)
    IN  IF t1.day > max_days_after_change
        THEN [t1 EXCEPT !.day = max_days_after_change]
        ELSE t1

(* Page_Action of page_time_date.c that writes the date and the time as    *)
(* they were read when the page was entered                                *)
Page_Time_Date_Action_stale(x, event) ==
    LET d == x.a.date IN
    IF d.state # DATE_STATE_FOCUSED
    THEN x
    ELSE CASE event.event = INPUT_EVENT_ENCODER ->
                [x EXCEPT !.a.date.temp_date =
                              DateRotate(d.temp_date, d.focus_index, event.value),
                          !.a.date.state = DATE_STATE_SLOT_ROLLING,
                          !.a.date.slot_anim_start_time = x.now]
           [] event.event = INPUT_EVENT_ENCODER_PRESSED ->
                [x EXCEPT !.a.date.state = DATE_STATE_ZOOMING_OUT,
                          !.a.date.anim_start_time = x.now]
           [] event.event = INPUT_EVENT_COMFIRM_PRESSED ->
                [HookSetTime(x, d.temp_date)
                    EXCEPT !.a.date.state = DATE_STATE_SHOW_MSG,
                           !.a.date.msg_start_time = x.now]
           [] event.event = INPUT_EVENT_BACK_PRESSED -> HookGoBack(x)
           [] OTHER -> x

(* Page_Action of page_time_date.c *)
Page_Time_Date_Action(x, event) ==
    LET d == x.a.date IN
    IF d.state # DATE_STATE_FOCUSED
    THEN x
    ELSE CASE event.event = INPUT_EVENT_ENCODER ->
                [x EXCEPT !.a.date.temp_date =
                              DateRotate(d.temp_date, d.focus_index, event.value),
                          !.a.date.state = DATE_STATE_SLOT_ROLLING,
                          !.a.date.slot_anim_start_time = x.now]
           [] event.event = INPUT_EVENT_ENCODER_PRESSED ->
                [x EXCEPT !.a.date.state = DATE_STATE_ZOOMING_OUT,
                          !.a.date.anim_start_time = x.now]
           [] event.event = INPUT_EVENT_COMFIRM_PRESSED ->
                LET now == DS3231_GetTime(x.a.rtc) IN
                [HookSetTime(x, [now EXCEPT !.year = d.temp_date.year,
                                            !.month = d.temp_date.month,
                                            !.day = d.temp_date.day])
                    EXCEPT !.a.date.state = DATE_STATE_SHOW_MSG,
                           !.a.date.msg_start_time = x.now]
           [] event.event = INPUT_EVENT_BACK_PRESSED -> HookGoBack(x)
           [] OTHER -> x

(* Page_Loop of page_time_time.c keeping the focus on the last field *)
Page_Time_Time_Loop_stay(x) ==
    LET d == x.a.time
        elapsed == x.now - d.anim_start_time
    IN  CASE d.state = TIME_STATE_ENTERING ->
               IF elapsed >= ANIM_DURATION_ENTER
               THEN [x EXCEPT !.a.time.state = TIME_STATE_ZOOMING_IN,
                              !.a.time.anim_start_time = x.now]
               ELSE x
          [] d.state = TIME_STATE_ZOOMING_IN ->
               IF elapsed >= ANIM_DURATION_ZOOM
               THEN [x EXCEPT !.a.time.state = TIME_STATE_FOCUSED]
               ELSE x
          [] d.state = TIME_STATE_ZOOMING_OUT ->
               IF elapsed >= ANIM_DURATION_ZOOM
               THEN [x EXCEPT !.a.time.state = TIME_STATE_SWITCHING]
               ELSE x
          [] d.state = TIME_STATE_SWITCHING ->
               [x EXCEPT !.a.time.focus_index =
                             IF d.focus_index + 1 < TIME_SLOT_ITEM_COUNT
                             THEN d.focus_index + 1 ELSE d.focus_index,
                         !.a.time.state = TIME_STATE_ZOOMING_IN,
                         !.a.time.anim_start_time = x.now]
          [] d.state = TIME_STATE_SLOT_ROLLING ->
               IF x.now - d.slot_anim_start_time >= SLOT_DURATION
               THEN [x EXCEPT !.a.time.state = TIME_STATE_FOCUSED]
               ELSE x
          [] d.state = TIME_STATE_SHOW_MSG ->
               IF x.now - d.msg_start_time >= MSG_DURATION
               THEN HookGoBack([x EXCEPT !.a.time.state = TIME_STATE_FOCUSED])
               ELSE x
          [] OTHER -> x

(* Page_Loop of page_time_time.c *)
Page_Time_Time_Loop(x) ==
    LET d == x.a.time
        elapsed == x.now - d.anim_start_time
    IN  CASE d.state = TIME_STATE_ENTERING ->
               IF elapsed >= ANIM_DURATION_ENTER
               THEN [x EXCEPT !.a.time.state = TIME_STATE_ZOOMING_IN,
                              !.a.time.anim_start_time = x.now]
               ELSE x
          [] d.state = TIME_STATE_ZOOMING_IN ->
               IF elapsed >= ANIM_DURATION_ZOOM
               THEN [x EXCEPT !.a.time.state = TIME_STATE_FOCUSED]
               ELSE x
          [] d.state = TIME_STATE_ZOOMING_OUT ->
               IF elapsed >= ANIM_DURATION_ZOOM
               THEN [x EXCEPT !.a.time.state = TIME_STATE_SWITCHING]
               ELSE x
          [] d.state = TIME_STATE_SWITCHING ->
               [x EXCEPT !.a.time.focus_index = (d.focus_index + 1) % TIME_SLOT_ITEM_COUNT,
                         !.a.time.state = TIME_STATE_ZOOMING_IN,
                         !.a.time.anim_start_time = x.now]
          [] d.state = TIME_STATE_SLOT_ROLLING ->
               IF x.now - d.slot_anim_start_time >= SLOT_DURATION
               THEN [x EXCEPT !.a.time.state = TIME_STATE_FOCUSED]
               ELSE x
          [] d.state = TIME_STATE_SHOW_MSG ->
               IF x.now - d.msg_start_time >= MSG_DURATION
               THEN HookGoBack([x EXCEPT !.a.time.state = TIME_STATE_FOCUSED])
               ELSE x
          [] OTHER -> x

(* the ENCODER case of Page_Action of page_time_time.c: the sum is an int, *)
(* % is the remainder of C, the fields are uint8_t                         *)
TimeRotate(temp, focus_index, value) ==
    CASE focus_index = 0 ->
           [temp EXCEPT !.hour = CRem(temp.hour + value + 24, 24) % TwoPow8]
      [] focus_index = 1 ->
           [temp EXCEPT !.minute = CRem(temp.minute + value + 60, 60) % TwoPow8]
      [] focus_index = 2 ->
           [temp EXCEPT !.second = CRem(temp.second + value + 60, 60) % TwoPow8]
      [] OTHER -> temp

(* Page_Action of page_time_time.c *)
Page_Time_Time_Action(x, event) ==
    LET d == x.a.time IN
    IF d.state # TIME_STATE_FOCUSED
    THEN (IF event.event = INPUT_EVENT_BACK_PRESSED THEN HookGoBack(x) ELSE x)
    ELSE CASE event.event = INPUT_EVENT_ENCODER ->
                [x EXCEPT !.a.time.temp_time =
                              TimeRotate(d.temp_time, d.focus_index, event.value),
                          !.a.time.state = TIME_STATE_SLOT_ROLLING,
                          !.a.time.slot_anim_start_time = x.now]
           [] event.event = INPUT_EVENT_ENCODER_PRESSED ->
                [x EXCEPT !.a.time.state = TIME_STATE_ZOOMING_OUT,
                          !.a.time.anim_start_time = x.now]
           [] event.event = INPUT_EVENT_COMFIRM_PRESSED ->
                LET now == DS3231_GetTime(x.a.rtc) IN
                [HookSetTime(x, [now EXCEPT !.hour = d.temp_time.hour,
                                            !.minute = d.temp_time.minute,
                                            !.second = d.temp_time.second])
                    EXCEPT !.a.time.state = TIME_STATE_SHOW_MSG,
                           !.a.time.msg_start_time = x.now]
           [] event.event = INPUT_EVENT_BACK_PRESSED -> HookGoBack(x)
           [] OTHER -> x

(* the loop hook of page pg; the loop hooks of the menu pages move their   *)
(* own highlight only                                                      *)
PageLoop(x, pg) ==
    CASE pg = g_page_auto_off -> Page_Auto_Off_Loop(x)
      [] pg = g_page_language -> Page_Language_Loop(x)
      [] pg = g_page_time_dst -> Page_Dst_Loop(x)
      [] pg = g_page_time_date -> Page_Time_Date_Loop(x)
      [] pg = g_page_time_time -> Page_Time_Time_Loop(x)
      [] OTHER -> x

(* the action hook of page pg; the choices made in the menu pages are the  *)
(* steps MenuSwitch and MenuBack                                           *)
PageAction(x, pg, event) ==
    CASE pg = g_page_auto_off -> Page_Auto_Off_Action(x, event)
      [] pg = g_page_language -> Page_Language_Action(x, event)
      [] pg = g_page_time_dst -> Page_Dst_Action(x, event)
      [] pg = g_page_time_date -> Page_Time_Date_Action(x, event)
      [] pg = g_page_time_time -> Page_Time_Time_Action(x, event)
      [] OTHER -> x

(* observer: the action hook run by this pass, the page data before and    *)
(* after it, the Go_Back_Page(), DS3231_SetTime and app_settings_save      *)
(* calls it made and what the latter returned; a Confirm taken in the Idle *)
(* sub-state of a list-selector page opens the count of the calls that     *)
(* page's loop hook makes for it                                           *)
ObservedAction(x, pg, event) ==
    LET pre == PageData(x.a, pg)
        y == PageAction(x, pg, event)
        n == y.a.obs.backs - x.a.obs.backs
        taken == /\ pg \in ListPages \cup PickerPages
                 /\ event.event = INPUT_EVENT_COMFIRM_PRESSED
                 /\ pre.state = IdleState(pg)
    IN  [y EXCEPT !.a.obs.act = [page |-> pg, event |-> event.event,
                                 value |-> event.value, pre |-> pre,
                                 post |-> PageData(y.a, pg),
                                 before |-> x.a.settings,
                                 settings |-> y.a.settings,
                                 rtc_before |-> x.a.rtc,
                                 rtc |-> y.a.rtc,
                                 sets |-> y.a.obs.sets - x.a.obs.sets,
                                 saves |-> y.a.obs.saves - x.a.obs.saves,
                                 save_ret |-> y.ret,
                                 at |-> x.now,
                                 backs |-> n],
                  !.a.obs.confirm =
                      IF taken
                      THEN [page |-> pg, at |-> x.now, backs |-> 0, left |-> FALSE,
                            saved |-> y.ret]
                      ELSE IF @.page = pg /\ pre.state = ShowMsgState(pg) /\ n > 0
                      THEN [@ EXCEPT !.left = TRUE]
                      ELSE @]

(* observer: a loop hook run by this pass *)
ObservedLoop(x, pg) ==
    LET pre == PageData(x.a, pg)
        y == PageLoop(x, pg)
        n == y.a.obs.backs - x.a.obs.backs
    IN  [y EXCEPT !.a.obs.loops = Append(@, [page |-> pg, pre |-> pre,
                                             post |-> PageData(y.a, pg),
                                             backs |-> n]),
                  !.a.obs.confirm = IF @.page = pg
                                    THEN [@ EXCEPT !.backs = @ + n]
                                    ELSE @]

RECURSIVE RunHooks(_, _)
RunHooks(x, cs) ==
    IF cs = <<>>
    THEN x
    ELSE LET c == Head(cs) IN
         CHOOSE r \in
             {RunHooks(y, Tail(cs)) :
                 y \in {CASE c[1] = "action" ->
                                ObservedAction(x, c[2], x.s.pop_event)
                          [] c[1] = "loop" -> ObservedLoop(x, c[2])
                          [] OTHER -> x}} : TRUE

(* Page_Manager_Loop with the hooks of the pages.  The manager reads its   *)
(* own fields before it calls the first hook and the hooks change none of  *)
(* the fields it writes, so the hooks it has called are run in order on    *)
(* its result.                                                             *)
Page_Manager_Loop_Hooks(x) ==
    CHOOSE y \in
        {RunHooks([x EXCEPT !.m = r.m, !.s = r.s],
                  SubSeq(r.m.calls, Len(x.m.calls) + 1, Len(r.m.calls))) :
            r \in {Page_Manager_Loop(x.m, x.s, x.now)}} : TRUE

update_auto_off_timeout(x) ==
    [x EXCEPT !.a.auto_off_timeout_ms =
        CASE x.a.settings.auto_off = 0 -> 0
          [] x.a.settings.auto_off = 1 -> 30000
          [] x.a.settings.auto_off = 2 -> 60000
          [] x.a.settings.auto_off = 3 -> 300000
          [] x.a.settings.auto_off = 4 -> 600000
          [] OTHER -> 0]

(* check_user_activity that wakes the screen and keeps the queue *)
check_user_activity_keep(x0) ==
    LET x == [x0 EXCEPT !.s.unmasked = @ \cup {"fifo_count"}] IN
    IF x.s.count > 0
    THEN update_auto_off_timeout([x EXCEPT !.a.last_activity_time = x.now,
                                           !.a.is_screen_on = TRUE])
    ELSE x

(* input_count_events() returns fifo_count as it finds it *)
check_user_activity(x0) ==
    LET x == [x0 EXCEPT !.s.unmasked = @ \cup {"fifo_count"}] IN
    IF x.s.count > 0
    THEN LET x1 == [x EXCEPT !.a.last_activity_time = x.now]
             x2 == IF ~x1.a.is_screen_on
                   THEN [x1 EXCEPT !.a.is_screen_on = TRUE,
                                   !.s = input_clear_events(x1.s)]
                   ELSE x1
         IN  update_auto_off_timeout(x2)
    ELSE x

handle_auto_off(x) ==
    IF x.a.auto_off_timeout_ms = 0 \/ ~x.a.is_screen_on
    THEN x
    ELSE IF x.now - x.a.last_activity_time > x.a.auto_off_timeout_ms
         THEN AfterManagerCall([x EXCEPT !.a.is_screen_on = FALSE,
                                         !.a.obs.home = TRUE],
                               Page_Manager_Go_Home(x.m))
         ELSE x

app_main_loop(x) ==
    LET x1 == handle_auto_off(check_user_activity(x)) IN
    IF x1.a.is_screen_on THEN Page_Manager_Loop_Hooks(x1) ELSE x1

NoAct == [page |-> NULL]
NoConfirm == [page |-> NULL]

(* the observers at the start of a pass of the main loop *)
FreshObs(o) ==
    [o EXCEPT !.act = NoAct, !.loops = <<>>, !.backs = 0, !.sets = 0,
              !.saves = 0, !.home = FALSE]

ZeroListData ==
    [selected_index |-> 0, state |-> 0, anim_start_time |-> 0,
     anim_duration |-> 0, msg_start_time |-> 0, msg_text |-> NULL]

(* Time_t with every field zero, and the private data of a picker page    *)
(* before its first enter; temp names the Time_t field of the page         *)
ZeroTime ==
    [hour |-> 0, minute |-> 0, second |-> 0, year |-> 0, month |-> 0,
     day |-> 0, week |-> 0]

ZeroPickerData(temp) ==
    [f \in {temp} |-> ZeroTime]
        @@ [focus_index |-> 0, state |-> 0, anim_start_time |-> 0,
            slot_anim_start_time |-> 0, msg_start_time |-> 0]

(* the registers of a DS3231 that holds Thursday 2024-02-29 23:59:59 *)
DefaultRtc ==
    DS3231_SetTime([hour |-> 23, minute |-> 59, second |-> 59, year |-> 2024,
                    month |-> 2, day |-> 29, week |-> 4])

(* the settings as app_settings_init leaves them when the EEPROM holds no  *)
(* valid copy                                                              *)
DefaultSettings == [language |-> 0, auto_off |-> NEVER, dst_enabled |-> 0]

(* the application data after app_main_init at tick now, with the settings *)
(* app_settings_init has loaded                                            *)
app_main_init(settings, now) ==
    update_auto_off_timeout(
        [m |-> Page_Manager_Init(NoExitHooks), s |-> input_init, now |-> now,
         a |-> [settings |-> settings,
                last_activity_time |-> now,
                is_screen_on |-> TRUE,
                auto_off_timeout_ms |-> 0,
                auto_off |-> [ZeroListData EXCEPT !.state = AUTO_OFF_STATE_IDLE]
                                @@ [viewport_top_index |-> 0],
                language |-> ZeroListData,
                dst |-> ZeroListData,
                date |-> ZeroPickerData("temp_date"),
                time |-> ZeroPickerData("temp_time"),
                rtc |-> DefaultRtc,
                eeprom |-> settings,
                obs |-> [act |-> NoAct, loops |-> <<>>, backs |-> 0, sets |-> 0,
                         saves |-> 0, home |-> FALSE, confirm |-> NoConfirm]]]).a

CommitApp(a) ==
    /\ g_app_settings' = a.settings
    /\ last_activity_time' = a.last_activity_time
    /\ is_screen_on' = a.is_screen_on
    /\ auto_off_timeout_ms' = a.auto_off_timeout_ms
    /\ g_page_auto_off_data' = a.auto_off
    /\ g_page_language_data' = a.language
    /\ g_page_dst_data' = a.dst
    /\ g_page_date_data' = a.date
    /\ g_page_time_data' = a.time
    /\ ds3231' = a.rtc
    /\ at24c32' = a.eeprom
    /\ appObs' = a.obs

InitAppWith(a) ==
    /\ g_app_settings = a.settings
    /\ last_activity_time = a.last_activity_time
    /\ is_screen_on = a.is_screen_on
    /\ auto_off_timeout_ms = a.auto_off_timeout_ms
    /\ g_page_auto_off_data = a.auto_off
    /\ g_page_language_data = a.language
    /\ g_page_dst_data = a.dst
    /\ g_page_date_data = a.date
    /\ g_page_time_data = a.time
    /\ ds3231 = a.rtc
    /\ at24c32 = a.eeprom
    /\ appObs = a.obs
    /\ last_input_tick = 0

(* ------------------------------------------------------------------ *)
(* Actions of the input pipeline                                        *)
(* ------------------------------------------------------------------ *)
(* the scan timer fires dt milliseconds after the previous step: the       *)
(* encoder counter has moved by `step`, the pins read `pins`, and the      *)
(* interrupt handler runs to completion                                    *)
Scan(pins, step, dt) ==
    /\ budget > 0
    /\ LET now == uwTick + dt
           s0 == [InputState EXCEPT !.cnt = (TIM_CNT + step) % TwoPow16]
           r == input_scan_timer_irq_handler(s0, pins, now)
       IN  /\ Commit(NoResult([r EXCEPT !.drained = 0]))
           /\ uwTick' = now
           /\ last_input_tick' = IF r.count # fifo_count THEN now
                                                         ELSE last_input_tick
    /\ budget' = budget - 1
    /\ op' = "scan"
    /\ count_ret' = NoCall
    /\ UNCHANGED <<pc_main, reads>>
    /\ UNCHANGED <<navVars, appVars>>

(* input_get_event up to the test of fifo_count, made with interrupts on *)
GetEventCheck ==
    /\ pc_main = "idle"
    /\ reads # 0
    /\ reads' = IF reads > 0 THEN reads - 1 ELSE reads
    /\ IF fifo_count = 0
       THEN /\ pop_ret' = 0
            /\ op' = "get"
            /\ pc_main' = "idle"
       ELSE /\ pop_ret' = NoCall
            /\ op' = "get_check"
            /\ pc_main' = "pop_cs"
    /\ pop_event' = ZeroEvent
    /\ pop_expect' = ZeroEvent
    /\ count_ret' = NoCall
    /\ UNCHANGED <<input_event_fifo, fifo_head, fifo_tail, fifo_count,
                   last_encoder_count, system_tick, Key, TIM_CNT, uwTick,
                   push_ret, pending, burst, drained,
                   budget, keyObs, encObs>>
    /\ unmasked' = unmasked \cup {"fifo_count"}
    /\ UNCHANGED <<navVars, appVars, last_input_tick>>

(* the rest of input_get_event: the critical section of fifo_pop_event *)
GetEventBody ==
    /\ pc_main = "pop_cs"
    /\ Commit(fifo_pop_event(InputState))
    /\ pc_main' = "idle"
    /\ op' = "get"
    /\ count_ret' = NoCall
    /\ UNCHANGED <<uwTick, budget, reads>>
    /\ UNCHANGED <<navVars, appVars, last_input_tick>>

CountEvents ==
    /\ pc_main = "idle"
    /\ count_ret' = fifo_count
    /\ op' = "count"
    /\ pop_event' = ZeroEvent
    /\ pop_expect' = ZeroEvent
    /\ pop_ret' = NoCall
    /\ UNCHANGED <<input_event_fifo, fifo_head, fifo_tail, fifo_count,
                   last_encoder_count, system_tick, Key, TIM_CNT, uwTick,
                   pc_main, push_ret, pending,
                   burst, drained, budget, keyObs, encObs, reads>>
    /\ unmasked' = unmasked \cup {"fifo_count"}
    /\ UNCHANGED <<navVars, appVars, last_input_tick>>

ClearEvents ==
    /\ pc_main = "idle"
    /\ Commit(NoResult(input_clear_events(InputState)))
    /\ op' = "clear"
    /\ count_ret' = NoCall
    /\ UNCHANGED <<uwTick, budget, pc_main, reads>>
    /\ UNCHANGED <<navVars, appVars, last_input_tick>>

(* a scan every millisecond; the knob turns one step per scan and no key   *)
(* is touched                                                              *)
ScanSteady == Scan(AllReleased, 1, 1)

InitFifo ==
    /\ InitInputWith(input_init, 0, MaxScans, Unlimited)
    /\ InitNavWith(Page_Manager_Init(NoExitHooks))
    /\ InitAppWith(app_main_init(DefaultSettings, 0))

NextFifo ==
    \/ ScanSteady
    \/ GetEventCheck
    \/ GetEventBody
    \/ CountEvents
    \/ ClearEvents

SpecFifo == InitFifo /\ [][NextFifo]_vars

(* the states AfterScans describes are the states of the driver after n    *)
(* steady scans with no main-loop call in between                          *)
SteadyReached ==
    (burst >= 0 /\ burst <= INPUT_FIFO_SIZE /\ system_tick = burst /\ op \in {"init", "scan"})
        => InputState = AfterScans(burst)

(* ------------------------------------------------------------------ *)
(* Keys and encoder under free inputs                                   *)
(* ------------------------------------------------------------------ *)
(* events left unread in the queue when the free scans start *)
Backlogs == {0, INPUT_FIFO_SIZE - 1, INPUT_FIFO_SIZE}

(* the keys are sampled freely while the knob is at rest *)
PinSamples == [Keys -> {GPIO_PIN_RESET, GPIO_PIN_SET}]

ScanKeys == \E pins \in PinSamples : Scan(pins, 0, 1)

InitKeys ==
    /\ \E n \in Backlogs : InitInputWith(AfterScans(n), n, MaxKeyScans, MaxReads)
    /\ InitNavWith(Page_Manager_Init(NoExitHooks))
    /\ InitAppWith(app_main_init(DefaultSettings, 0))

NextKeys ==
    \/ ScanKeys
    \/ GetEventCheck
    \/ GetEventBody

SpecKeys == InitKeys /\ [][NextKeys]_vars

(* the knob moves freely while no key is touched; movements of the encoder *)
(* counter between two scans: none, one step up, one step down, half a     *)
(* turn of the 16-bit counter                                              *)
EncSteps == {0, 1, TwoPow16 - 1, TwoPow15}

ScanEncoder == \E step \in EncSteps : Scan(AllReleased, step, 1)

InitEncoder ==
    /\ \E n \in Backlogs : InitInputWith(AfterScans(n), n, MaxEncScans, MaxReads)
    /\ InitNavWith(Page_Manager_Init(NoExitHooks))
    /\ InitAppWith(app_main_init(DefaultSettings, 0))

NextEncoder ==
    \/ ScanEncoder
    \/ GetEventCheck
    \/ GetEventBody

SpecEncoder == InitEncoder /\ [][NextEncoder]_vars

(* ------------------------------------------------------------------ *)
(* Actions of the page manager                                          *)
(* ------------------------------------------------------------------ *)
(* the manager at the start of a call: no hook called yet *)
FreshNav == [NavState EXCEPT !.calls = <<>>, !.sw = NoSw]

(* a page's action or loop hook calls Switch_Page(new_page) *)
SwitchPage(new_page) ==
    /\ pc_main = "idle"
    /\ \E m \in {Switch_Page(FreshNav, new_page, uwTick)} : CommitNav(m)
    /\ roundTrip' = IF /\ manager_state = MANAGER_STATE_IDLE
                       /\ new_page # current_page
                       /\ history_depth < PAGE_HISTORY_MAX_DEPTH
                    THEN [phase |-> "switched", orig |-> current_page,
                          hist |-> History(NavState)]
                    ELSE NoRoundTrip
    /\ op' = "Switch_Page"
    /\ nav_arg' = new_page
    /\ pre_depth' = history_depth
    /\ UNCHANGED <<driverVars, uwTick, appVars, last_input_tick>>

(* a page's action or loop hook calls Go_Back_Page() *)
GoBackPage ==
    /\ pc_main = "idle"
    /\ \E m \in {Go_Back_Page(FreshNav, uwTick)} : CommitNav(m)
    /\ roundTrip' = IF roundTrip.phase = "switched"
                    THEN [roundTrip EXCEPT !.phase = "back"]
                    ELSE NoRoundTrip
    /\ op' = "Go_Back_Page"
    /\ nav_arg' = NULL
    /\ pre_depth' = history_depth
    /\ UNCHANGED <<driverVars, uwTick, appVars, last_input_tick>>

(* handle_auto_off calls Page_Manager_Go_Home() *)
GoHome ==
    /\ pc_main = "idle"
    /\ \E m \in {Page_Manager_Go_Home(FreshNav)} : CommitNav(m)
    /\ roundTrip' = NoRoundTrip
    /\ op' = "Go_Home"
    /\ nav_arg' = NULL
    /\ pre_depth' = history_depth
    /\ UNCHANGED <<driverVars, uwTick, appVars, last_input_tick>>

(* the main loop calls Page_Manager_Loop() *)
Loop ==
    /\ pc_main = "idle"
    /\ \E r \in {Page_Manager_Loop(FreshNav, NoResult(InputState), uwTick)} :
       /\ CommitNav(r.m)
       /\ Commit(r.s)
    /\ roundTrip' = IF roundTrip.phase = "back" THEN roundTrip ELSE NoRoundTrip
    /\ op' = "Loop"
    /\ nav_arg' = NULL
    /\ pre_depth' = history_depth
    /\ count_ret' = NoCall
    /\ UNCHANGED <<uwTick, budget, reads, pc_main, appVars, last_input_tick>>

(* the millisecond tick advances by one transition time, or one less *)
TickSteps == {ANIM_DURATION - 1, ANIM_DURATION}

TickTo(d, cap) ==
    /\ uwTick + d <= cap
    /\ uwTick' = uwTick + d
    /\ op' = "Tick"
    /\ calls' = <<>>
    /\ sw' = NoSw
    /\ nav_arg' = NULL
    /\ pre_depth' = history_depth
    /\ UNCHANGED <<driverVars, current_page, manager_state, page_from, page_to,
                   anim_start_time, anim_duration, history_stack, history_depth,
                   last_refresh_time, page_exit, last_enter, roundTrip,
                   appVars, last_input_tick>>

Tick(d) == TickTo(d, MaxTick)

InitNav ==
    /\ InitInputWith(input_init, 0, MaxNavScans, Unlimited)
    /\ \E hooks \in ExitConfigs : InitNavWith(Page_Manager_Init(hooks))
    /\ InitAppWith(app_main_init(DefaultSettings, 0))

(* a scan in the current millisecond finds the knob one step further *)
ScanKnob == Scan(AllReleased, 1, 0)

NextNav ==
    \/ \E pg \in NavTargets : SwitchPage(pg)
    \/ GoBackPage
    \/ GoHome
    \/ Loop
    \/ \E d \in TickSteps : Tick(d)
    \/ ScanKnob

SpecNav == InitNav /\ [][NextNav]_vars

(* Long navigation sequences: the pages switch back and forth between the  *)
(* home page and the menu, every transition takes its full time, and the   *)
(* encoder is at rest.                                                     *)
HistoryPages == {g_page_main, g_page_main_menu}

(* the tick advances by one transition time while a transition is waiting  *)
(* for it: the pages are operated as soon as each transition has finished  *)
TickTransition ==
    /\ manager_state = MANAGER_STATE_ANIMATING
    /\ uwTick - anim_start_time < anim_duration
    /\ TickTo(ANIM_DURATION, MaxTransitions * ANIM_DURATION)

InitHistory ==
    /\ InitInputWith(input_init, 0, 0, Unlimited)
    /\ InitNavWith(Page_Manager_Init(NoExitHooks))
    /\ InitAppWith(app_main_init(DefaultSettings, 0))

NextHistory ==
    \/ \E pg \in HistoryPages : SwitchPage(pg)
    \/ GoBackPage
    \/ Loop
    \/ TickTransition

SpecHistory == InitHistory /\ [][NextHistory]_vars

(* The page manager polled by a main loop that keeps running, with a tick  *)
(* that keeps advancing by half a transition time or a whole one.          *)
LiveTickSteps == {ANIM_DURATION \div 2, ANIM_DURATION}

TickLive == \E d \in LiveTickSteps : TickTo(d, MaxTick)

InitNavLive ==
    /\ InitInputWith(input_init, 0, 0, Unlimited)
    /\ \E hooks \in ExitConfigs : InitNavWith(Page_Manager_Init(hooks))
    /\ InitAppWith(app_main_init(DefaultSettings, 0))

NextNavLive ==
    \/ \E pg \in NavTargets : SwitchPage(pg)
    \/ GoBackPage
    \/ GoHome
    \/ Loop
    \/ TickLive

(* app_main_loop calls Page_Manager_Loop on every pass of while(1) and the *)
(* SysTick interrupt keeps incrementing the tick                           *)
SpecNavLive ==
    InitNavLive /\ [][NextNavLive]_vars /\ WF_vars(Loop) /\ WF_vars(TickLive)

(* One transition polled at every millisecond: Switch_Page has just been   *)
(* accepted on the home page at tick 0.                                    *)
SlideTick == TickTo(1, MaxSlideTick)

InitSlide ==
    /\ InitInputWith(input_init, 0, 0, Unlimited)
    /\ \E pg \in NavTargets \ {g_page_main} :
          InitNavWith(Switch_Page(Page_Manager_Init(NoExitHooks), pg, 0))
    /\ InitAppWith(app_main_init(DefaultSettings, 0))

NextSlide ==
    \/ Loop
    \/ SlideTick

SpecSlide == InitSlide /\ [][NextSlide]_vars

(* Events that arrive around a transition: Switch_Page has just been       *)
(* accepted on the home page at tick 0; every scan comes one millisecond   *)
(* after the previous step and finds the knob one or two steps further, so *)
(* that the queued events differ in value and in timestamp.                *)
DispatchScan == \E step \in {1, 2} : Scan(AllReleased, step, 1)

DispatchTick == TickTo(ANIM_DURATION, MaxDispatchTick)

InitDispatch ==
    /\ InitInputWith(input_init, 0, MaxDispatchScans, Unlimited)
    /\ InitNavWith(Switch_Page(Page_Manager_Init(NoExitHooks),
                               g_page_main_menu, 0))
    /\ InitAppWith(app_main_init(DefaultSettings, 0))

NextDispatch ==
    \/ Loop
    \/ DispatchScan
    \/ DispatchTick

SpecDispatch == InitDispatch /\ [][NextDispatch]_vars

(* ------------------------------------------------------------------ *)
(* Actions of the application                                           *)
(* ------------------------------------------------------------------ *)
(* the program at the start of a pass of the main loop *)
FreshApp ==
    [m |-> FreshNav, s |-> NoResult(InputState),
     a |-> [AppState EXCEPT !.obs = FreshObs(@)], now |-> uwTick,
     bus |-> SaveOk, ret |-> FALSE]

(* the pages whose loop hook the manager calls on a pass *)
PolledPages ==
    IF ~is_screen_on THEN {}
    ELSE IF manager_state = MANAGER_STATE_ANIMATING THEN {page_from, page_to}
    ELSE {current_page}

(* time left on the timers the program is waiting for: the transition, the *)
(* highlight animation and the message of the polled pages, the auto-off   *)
(* timeout                                                                 *)
PageTimer(pg) ==
    LET d == PageData(AppState, pg) IN
    IF pg \in ListPages
    THEN IF d.state = ShowMsgState(pg)
         THEN {d.msg_start_time + MSG_DURATION - uwTick}
         ELSE IF d.state # IdleState(pg)
         THEN {d.anim_start_time + d.anim_duration - uwTick}
         ELSE {}
    ELSE IF pg \in PickerPages
    THEN CASE d.state = DATE_STATE_ENTERING ->
                {d.anim_start_time + ANIM_DURATION_ENTER - uwTick}
           [] d.state \in {DATE_STATE_ZOOMING_IN, DATE_STATE_ZOOMING_OUT} ->
                {d.anim_start_time + ANIM_DURATION_ZOOM - uwTick}
           [] d.state = DATE_STATE_SWITCHING -> {0}
           [] d.state = DATE_STATE_SLOT_ROLLING ->
                {d.slot_anim_start_time + SLOT_DURATION - uwTick}
           [] d.state = DATE_STATE_SHOW_MSG ->
                {d.msg_start_time + MSG_DURATION - uwTick}
           [] OTHER -> {}
    ELSE {}

Timers ==
    (IF manager_state = MANAGER_STATE_ANIMATING
     THEN {anim_start_time + anim_duration - uwTick} ELSE {})
    \cup UNION {PageTimer(pg) : pg \in PolledPages}
    \cup (IF auto_off_timeout_ms # 0 /\ is_screen_on
          THEN {last_activity_time + auto_off_timeout_ms + 1 - uwTick} ELSE {})

(* The main loop passes many times between two scans and between two steps *)
(* of the user: a pass is due while an event can be read or a timer has    *)
(* run out, and the scans, the user and the tick wait for the passes due.  *)
PassDue ==
    \/ fifo_count > 0 /\ manager_state = MANAGER_STATE_IDLE
    \/ \E r \in Timers : r <= 0

(* while(1) in main calls app_main_loop(); the I2C bus is used by the      *)
(* Confirm of a list page only, and is free to fail there                  *)
AppLoop ==
    /\ pc_main = "idle"
    /\ \E bus \in IF current_page \in ListPages THEN SaveOutcomes ELSE {SaveOk} :
       \E x \in {app_main_loop([FreshApp EXCEPT !.bus = bus])} :
          /\ CommitNav(x.m)
          /\ Commit(x.s)
          /\ CommitApp(x.a)
    /\ roundTrip' = NoRoundTrip
    /\ op' = "app_main_loop"
    /\ nav_arg' = NULL
    /\ pre_depth' = history_depth
    /\ count_ret' = NoCall
    /\ UNCHANGED <<uwTick, budget, reads, pc_main, last_input_tick>>

(* the action hook of a menu page (home, main menu, display menu, time     *)
(* menu) calls Switch_Page for the entry the user has chosen               *)
MenuSwitch(pg) ==
    /\ pc_main = "idle"
    /\ is_screen_on
    /\ manager_state = MANAGER_STATE_IDLE
    /\ ~PassDue
    /\ uwTick < MaxMenuTick
    /\ pg \in SwitchTargets(current_page)
    /\ \E x \in {AfterManagerCall(FreshApp, Switch_Page(FreshNav, pg, uwTick))} :
          /\ CommitNav(x.m)
          /\ CommitApp(x.a)
    /\ roundTrip' = NoRoundTrip
    /\ op' = "Switch_Page"
    /\ nav_arg' = pg
    /\ pre_depth' = history_depth
    /\ UNCHANGED <<driverVars, uwTick, last_input_tick>>

(* the pages whose action hook is not followed event by event *)
MenuPages == {g_page_main_menu, g_page_display, g_page_time_set, g_page_info}

(* the action hook of a menu page calls Go_Back_Page() *)
MenuBack ==
    /\ pc_main = "idle"
    /\ is_screen_on
    /\ manager_state = MANAGER_STATE_IDLE
    /\ ~PassDue
    /\ uwTick < MaxMenuTick
    /\ current_page \in MenuPages
    /\ \E x \in {HookGoBack(FreshApp)} :
          /\ CommitNav(x.m)
          /\ CommitApp(x.a)
    /\ roundTrip' = NoRoundTrip
    /\ op' = "Go_Back_Page"
    /\ nav_arg' = NULL
    /\ pre_depth' = history_depth
    /\ UNCHANGED <<driverVars, uwTick, last_input_tick>>

(* samples of the scan interrupt: nothing touched, Back held, Confirm      *)
(* held, the knob turned by one step                                       *)
Held(k) == [j \in Keys |-> IF j = k THEN GPIO_PIN_RESET ELSE GPIO_PIN_SET]

AppSamples ==
    {<<AllReleased, 0>>, <<Held(Key_Back), 0>>, <<Held(Key_Confirm), 0>>,
     <<AllReleased, 1>>}

(* The user works the keys and the knob on the list and picker pages, whose *)
(* action hooks are followed event by event, and to wake the screen; a     *)
(* scan that finds nothing touched is taken when it releases a key.  The   *)
(* observers of the driver are not kept.                                   *)
AppScan ==
    /\ ~PassDue
    /\ manager_state = MANAGER_STATE_IDLE
    /\ current_page \in ListPages \cup PickerPages \/ ~is_screen_on
    /\ budget > 0
    /\ \E smp \in AppSamples :
          /\ smp = <<AllReleased, 0>>
                => \E k \in Keys : Key[k].state # INPUT_STATE_IDLE
          /\ \E r \in {input_scan_timer_irq_handler(
                           [InputState EXCEPT !.cnt = (TIM_CNT + smp[2]) % TwoPow16],
                           smp[1], uwTick)} :
                /\ Commit(NoResult([r EXCEPT !.drained = 0,
                                             !.pending = <<>>,
                                             !.burst = 0,
                                             !.keyObs = input_init.keyObs,
                                             !.encObs = input_init.encObs]))
                /\ last_input_tick' = IF r.count # fifo_count THEN uwTick
                                                              ELSE last_input_tick
    /\ budget' = budget - 1
    /\ op' = "scan"
    /\ count_ret' = NoCall
    /\ UNCHANGED <<uwTick, pc_main, reads>>
    /\ UNCHANGED <<navVars, appVars>>

(* the tick moves to the instant the next timer runs out, or by QuietTime  *)
(* when no timer is running; the two scans that debounce a key, 1 ms       *)
(* apart, fall between two such instants                                   *)
AppTick ==
    /\ ~PassDue
    /\ \A k \in Keys : Key[k].state # INPUT_STATE_DEBOUNCE
    /\ fifo_count = 0 \/ manager_state = MANAGER_STATE_ANIMATING
    /\ TickTo(IF Timers = {} THEN QuietTime
              ELSE CHOOSE r \in Timers : \A q \in Timers : r <= q,
              MaxAppTick)

(* the settings app_settings_init finds in the EEPROM *)
StoredSettings ==
    {DefaultSettings, [DefaultSettings EXCEPT !.auto_off = 2]}

InitApp ==
    /\ InitInputWith(input_init, 0, MaxAppScans, Unlimited)
    /\ InitNavWith(Page_Manager_Init(NoExitHooks))
    /\ \E st \in StoredSettings : InitAppWith(app_main_init(st, 0))

NextApp ==
    \/ AppLoop
    \/ \E pg \in Pages \ PickerPages : MenuSwitch(pg)
    \/ MenuBack
    \/ AppScan
    \/ AppTick

SpecApp == InitApp /\ [][NextApp]_vars

(* ------------------------------------------------------------------ *)
(* The date page and the time page with a running RTC                   *)
(* ------------------------------------------------------------------ *)
(* the pages on the way from the home page to the two picker pages *)
PickerRoute ==
    {g_page_main_menu, g_page_time_set, g_page_time_date, g_page_time_time}

(* the RTC counts one second: from 23:59:59 of Thursday 2024-02-29 to      *)
(* 00:00:00 of Friday 2024-03-01                                           *)
RtcNext(regs) ==
    LET tm == DS3231_GetTime(regs) IN
    IF tm.second < 59
    THEN DS3231_SetTime([tm EXCEPT !.second = @ + 1])
    ELSE DS3231_SetTime([hour |-> 0, minute |-> 0, second |-> 0,
                         year |-> 2024, month |-> 3, day |-> 1, week |-> 5])

RtcSecond ==
    /\ ~PassDue
    /\ DS3231_GetTime(ds3231).day = 29
    /\ ds3231' = RtcNext(ds3231)
    /\ op' = "rtc"
    /\ UNCHANGED <<input_event_fifo, fifo_head, fifo_tail, fifo_count,
                   last_encoder_count, system_tick, Key, TIM_CNT, uwTick,
                   pc_main, pop_event, pop_ret, push_ret, pending, pop_expect,
                   burst, drained, budget, keyObs, encObs, count_ret, reads,
                   unmasked>>
    /\ UNCHANGED <<navVars, last_input_tick>>
    /\ UNCHANGED <<g_app_settings, last_activity_time, is_screen_on,
                   auto_off_timeout_ms, g_page_auto_off_data,
                   g_page_language_data, g_page_dst_data, g_page_date_data,
                   g_page_time_data, at24c32, appObs>>

InitPicker ==
    /\ InitInputWith(input_init, 0, MaxAppScans, Unlimited)
    /\ InitNavWith(Page_Manager_Init(NoExitHooks))
    /\ InitAppWith(app_main_init(DefaultSettings, 0))

(* the tick moves to the instant the next timer runs out; it moves by      *)
(* QuietTime once the user has left the picker pages                       *)
PickerTick ==
    /\ Timers # {} \/ current_page \notin PickerPages
    /\ AppTick

NextPicker ==
    \/ AppLoop
    \/ \E pg \in PickerRoute : MenuSwitch(pg)
    \/ AppScan
    \/ PickerTick
    \/ RtcSecond

SpecPicker == InitPicker /\ [][NextPicker]_vars

(* ------------------------------------------------------------------ *)
(* The rotation of the date page on every date                          *)
(* ------------------------------------------------------------------ *)
(* years, dates, focused fields and rotation values the date page is run on *)
DateYears == {2000, 2023, 2024, 2025, 2099}

Dates ==
    {d \in [year : DateYears, month : 1 .. 12, day : 1 .. 31] :
        d.day <= get_max_days_in_month(d.year, d.month)}

DateValues == {1, 2, 11, 31, 255, 256, 2099, 32767,
               0 - 1, 0 - 2, 0 - 12, 0 - 31, 0 - 256, 0 - 2000, 0 - 32768}

(* the manager with the date page current, reached from the home page      *)
(* through the main menu and the time menu                                 *)
OnDatePage ==
    [Page_Manager_Init(NoExitHooks)
        EXCEPT !.current_page = g_page_time_date,
               !.history_stack = [i \in 0 .. (PAGE_HISTORY_MAX_DEPTH - 1) |->
                                     CASE i = 0 -> g_page_main
                                       [] i = 1 -> g_page_main_menu
                                       [] i = 2 -> g_page_time_set
                                       [] OTHER -> NULL],
               !.history_depth = 3]

(* the date page Focused on field f, editing date d of an RTC that holds   *)
(* noon of that day                                                        *)
InitDate ==
    /\ InitInputWith(input_init, 0, 0, Unlimited)
    /\ InitNavWith(OnDatePage)
    /\ \E d \in Dates, f \in 0 .. (SLOT_ITEM_COUNT - 1) :
          LET tm == [hour |-> 12, minute |-> 0, second |-> 0, year |-> d.year,
                     month |-> d.month, day |-> d.day, week |-> 1]
              a == app_main_init(DefaultSettings, 0)
          IN  InitAppWith([a EXCEPT !.rtc = DS3231_SetTime(tm),
                                    !.date.temp_date = tm,
                                    !.date.focus_index = f,
                                    !.date.state = DATE_STATE_FOCUSED])

(* Page_Manager_Loop hands a rotation event to the action hook of the date *)
(* page                                                                    *)
DateAction(value) ==
    /\ current_page = g_page_time_date
    /\ g_page_date_data.state = DATE_STATE_FOCUSED
    /\ \E x \in {ObservedAction(FreshApp, g_page_time_date,
                                  [event |-> INPUT_EVENT_ENCODER,
                                   value |-> value])} :
          CommitApp(x.a)
    /\ op' = "Page_Action"
    /\ UNCHANGED <<input_event_fifo, fifo_head, fifo_tail, fifo_count,
                   last_encoder_count, system_tick, Key, TIM_CNT, uwTick,
                   pc_main, pop_event, pop_ret, push_ret, pending, pop_expect,
                   burst, drained, budget, keyObs, encObs, count_ret, reads,
                   unmasked>>
    /\ UNCHANGED <<navVars, last_input_tick>>

NextDate == \E value \in DateValues : DateAction(value)

SpecDate == InitDate /\ [][NextDate]_vars

(* ------------------------------------------------------------------ *)
(* The length of every month the date page can show                     *)
(* ------------------------------------------------------------------ *)
(* the date page Focused on the day, on the first day of each month of    *)
(* each year the page accepts                                              *)
InitMonth ==
    /\ InitInputWith(input_init, 0, 0, Unlimited)
    /\ InitNavWith(OnDatePage)
    /\ \E y \in 2000 .. 2099, mo \in 1 .. 12 :
          LET tm == [hour |-> 12, minute |-> 0, second |-> 0, year |-> y,
                     month |-> mo, day |-> 1, week |-> 1]
              a == app_main_init(DefaultSettings, 0)
          IN  InitAppWith([a EXCEPT !.rtc = DS3231_SetTime(tm),
                                    !.date.temp_date = tm,
                                    !.date.focus_index = SLOT_ITEM_COUNT - 1,
                                    !.date.state = DATE_STATE_FOCUSED])

(* the knob is turned back by one step: Page_Action asks                  *)
(* get_max_days_in_month for the length of the month and stores it in the *)
(* day                                                                     *)
MonthEnd == DateAction(0 - 1)

NextMonth == MonthEnd

SpecMonth == InitMonth /\ [][NextMonth]_vars

(* ------------------------------------------------------------------ *)
(* The time page under rotation                                         *)
(* ------------------------------------------------------------------ *)
(* times of day at and between the ends of each field's range *)
Times == [hour : {0, 1, 12, 23}, minute : {0, 30, 59}, second : {0, 1, 59}]

(* values of a rotation event: one step, a full turn of each field, one    *)
(* more than a full turn, and the ends of the int16_t range                *)
TimeValues == {1, 2, 23, 24, 59, 60, 100, 32767,
               0 - 1, 0 - 2, 0 - 24, 0 - 25, 0 - 60, 0 - 61, 0 - 32768}

(* the manager with the time page current, reached from the home page      *)
(* through the main menu and the time menu                                 *)
OnTimePage == [OnDatePage EXCEPT !.current_page = g_page_time_time]

(* the time page Focused on field f, editing time tm *)
InitTime ==
    /\ InitInputWith(input_init, 0, 0, Unlimited)
    /\ InitNavWith(OnTimePage)
    /\ \E tm \in Times, f \in 0 .. (TIME_SLOT_ITEM_COUNT - 1) :
          LET a == app_main_init(DefaultSettings, 0)
              full == [hour |-> tm.hour, minute |-> tm.minute,
                       second |-> tm.second, year |-> 2024, month |-> 2,
                       day |-> 29, week |-> 4]
          IN  InitAppWith([a EXCEPT !.rtc = DS3231_SetTime(full),
                                    !.time.temp_time = full,
                                    !.time.focus_index = f,
                                    !.time.state = TIME_STATE_FOCUSED])

(* Page_Manager_Loop hands a rotation event to the action hook of the time *)
(* page                                                                    *)
TimeAction(value) ==
    /\ current_page = g_page_time_time
    /\ g_page_time_data.state = TIME_STATE_FOCUSED
    /\ \E x \in {ObservedAction(FreshApp, g_page_time_time,
                                  [event |-> INPUT_EVENT_ENCODER,
                                   value |-> value])} :
          CommitApp(x.a)
    /\ op' = "Page_Action"
    /\ UNCHANGED <<driverVars, uwTick, navVars, last_input_tick>>

NextTime == \E value \in TimeValues : TimeAction(value)

SpecTime == InitTime /\ [][NextTime]_vars

(* ------------------------------------------------------------------ *)
(* The sub-states of the date page and of the time page                 *)
(* ------------------------------------------------------------------ *)
(* the events the scan handler queues: a debounced press of each key, the  *)
(* knob turned by one step                                                 *)
EdgeEvents ==
    {[event |-> INPUT_EVENT_BACK_PRESSED, value |-> 0],
     [event |-> INPUT_EVENT_COMFIRM_PRESSED, value |-> 0],
     [event |-> INPUT_EVENT_ENCODER_PRESSED, value |-> 0],
     [event |-> INPUT_EVENT_ENCODER, value |-> 1]}

(* the manager on the time menu, reached from the home page through the    *)
(* main menu                                                               *)
OnTimeMenu ==
    [Page_Manager_Init(NoExitHooks)
        EXCEPT !.current_page = g_page_time_set,
               !.history_stack = [i \in 0 .. (PAGE_HISTORY_MAX_DEPTH - 1) |->
                                     CASE i = 0 -> g_page_main
                                       [] i = 1 -> g_page_main_menu
                                       [] OTHER -> NULL],
               !.history_depth = 2]

InitEdges ==
    /\ InitInputWith(input_init, 0, MaxEdgeEvents, Unlimited)
    /\ InitNavWith(OnTimeMenu)
    /\ InitAppWith(app_main_init(DefaultSettings, 0))

(* the action hook of the time menu calls Switch_Page for the date page or *)
(* the time page                                                           *)
EdgeSwitch(pg) ==
    /\ pc_main = "idle"
    /\ manager_state = MANAGER_STATE_IDLE
    /\ ~PassDue
    /\ current_page = g_page_time_set
    /\ \E x \in {AfterManagerCall(FreshApp, Switch_Page(FreshNav, pg, uwTick))} :
          /\ CommitNav(x.m)
          /\ CommitApp(x.a)
    /\ roundTrip' = NoRoundTrip
    /\ op' = "Switch_Page"
    /\ nav_arg' = pg
    /\ pre_depth' = history_depth
    /\ UNCHANGED <<driverVars, uwTick, last_input_tick>>

(* a scan made while a picker page is current ends a debounce or finds the *)
(* knob moved, and queues the event                                        *)
EdgeScan ==
    /\ ~PassDue
    /\ manager_state = MANAGER_STATE_IDLE
    /\ current_page \in PickerPages
    /\ budget > 0
    /\ \E ev \in EdgeEvents :
       \E r \in {fifo_push_event(input_tick(InputState, uwTick),
                                 ev.event, ev.value)} :
          /\ Commit(NoResult([r EXCEPT !.drained = 0, !.pending = <<>>,
                                       !.burst = 0]))
          /\ last_input_tick' = uwTick
    /\ budget' = budget - 1
    /\ op' = "scan"
    /\ count_ret' = NoCall
    /\ UNCHANGED <<uwTick, pc_main, reads>>
    /\ UNCHANGED <<navVars, appVars>>

(* the tick moves to the instant the next timer runs out *)
EdgeTick ==
    /\ Timers # {}
    /\ AppTick

(* the passes of the main loop that find an event to read or a timer run   *)
(* out; the passes in between change no sub-state                          *)
EdgePass ==
    /\ PassDue
    /\ AppLoop

NextEdges ==
    \/ EdgePass
    \/ \E pg \in PickerPages : EdgeSwitch(pg)
    \/ EdgeScan
    \/ EdgeTick

SpecEdges == InitEdges /\ [][NextEdges]_vars

(* ------------------------------------------------------------------ *)
(* The date page and the time page side by side                         *)
(* ------------------------------------------------------------------ *)
(* Two runs of the program get the same events at the same ticks: one has *)
(* entered the date page, the other the time page, both from the time     *)
(* menu.  The manager variables are those of the date run; the manager of *)
(* the time run differs in its current page only while both runs are on   *)
(* their page.  The date run writes the date registers of the RTC only    *)
(* and the time run the time registers only, so ds3231 holds the date     *)
(* registers of the first and the time registers of the second.           *)
OnPickers ==
    /\ manager_state = MANAGER_STATE_IDLE
    /\ current_page = g_page_time_date

TimeRun(x) == [x EXCEPT !.m.current_page = g_page_time_time]

(* the manager after a step of the two runs: that of the run that has     *)
(* left its page, if one has                                               *)
PairManager(xd, xt) ==
    IF xd.a.obs.backs = 0 /\ xt.a.obs.backs > 0 THEN xt.m ELSE xd.m

InitPair ==
    /\ InitInputWith(input_init, 0, MaxPairEvents, Unlimited)
    /\ InitNavWith(OnDatePage)
    /\ \E x0 \in {[m |-> OnDatePage, s |-> input_init, now |-> 0,
                    a |-> app_main_init(DefaultSettings, 0),
                    bus |-> SaveOk, ret |-> FALSE]} :
          InitAppWith(Page_Time_Time_Enter(Page_Time_Date_Enter(x0)).a)

PairTimers == PageTimer(g_page_time_date) \cup PageTimer(g_page_time_time)

PairDue == \E r \in PairTimers : r <= 0

(* Page_Manager_Loop of each run hands the same event to the action hook  *)
(* of its page                                                             *)
PairAction(ev) ==
    /\ OnPickers
    /\ ~PairDue
    /\ budget > 0
    /\ \E xd \in {ObservedAction(FreshApp, g_page_time_date, ev)} :
       \E xt \in {ObservedAction(TimeRun([xd EXCEPT !.a.obs = FreshApp.a.obs]),
                                  g_page_time_time, ev)} :
          /\ CommitNav(PairManager(xd, xt))
          /\ CommitApp([xt.a EXCEPT !.obs.act =
                                       [peer |-> xt.a.obs.act] @@ xd.a.obs.act])
    /\ budget' = budget - 1
    /\ roundTrip' = NoRoundTrip
    /\ op' = "Page_Action"
    /\ nav_arg' = NULL
    /\ pre_depth' = history_depth
    /\ UNCHANGED <<input_event_fifo, fifo_head, fifo_tail, fifo_count,
                   last_encoder_count, system_tick, Key, TIM_CNT, uwTick,
                   pc_main, pop_event, pop_ret, push_ret, pending, pop_expect,
                   burst, drained, keyObs, encObs, count_ret, reads,
                   unmasked, last_input_tick>>

(* Page_Manager_Loop of each run calls the loop hook of its page on a     *)
(* pass that finds a timer run out                                         *)
PairLoop ==
    /\ OnPickers
    /\ PairDue
    /\ \E xd \in {ObservedLoop(FreshApp, g_page_time_date)} :
       \E xt \in {ObservedLoop(TimeRun([xd EXCEPT !.a.obs.backs = 0]),
                                g_page_time_time)} :
          /\ CommitNav(PairManager(xd, xt))
          /\ CommitApp(xt.a)
    /\ roundTrip' = NoRoundTrip
    /\ op' = "Page_Loop"
    /\ nav_arg' = NULL
    /\ pre_depth' = history_depth
    /\ UNCHANGED <<driverVars, uwTick, last_input_tick>>

(* the tick moves to the instant the next timer of the two pages runs out *)
PairTick ==
    /\ OnPickers
    /\ ~PairDue
    /\ PairTimers # {}
    /\ TickTo(CHOOSE r \in PairTimers : \A q \in PairTimers : r <= q,
              MaxPairTick)

NextPair ==
    \/ \E ev \in EdgeEvents : PairAction(ev)
    \/ PairLoop
    \/ PairTick

SpecPair == InitPair /\ [][NextPair]_vars

(* ------------------------------------------------------------------ *)
(* The list-selector pages under rotation                               *)
(* ------------------------------------------------------------------ *)
(* the number of items of each list-selector page *)
ItemCount(pg) ==
    CASE pg = g_page_auto_off -> AUTO_OFF_ITEM_COUNT
      [] pg = g_page_language -> LANGUAGE_ITEM_COUNT
      [] pg = g_page_time_dst -> DST_ITEM_COUNT

(* the settings a save of this firmware can have stored *)
ListSettings ==
    [language : 0 .. (LANGUAGE_ITEM_COUNT - 1),
     auto_off : 0 .. (AUTO_OFF_ITEM_COUNT - 1),
     dst_enabled : 0 .. (DST_ITEM_COUNT - 1)]

(* the value of a rotation event: the knob has moved by one step or by     *)
(* several between two scans, in either direction                          *)
ListValues == {1, 2, 5, 6, 131, 0 - 1, 0 - 2, 0 - 5, 0 - 6, 0 - 131}

(* the manager with list page pg current, reached from the home page       *)
(* through the main menu and the menu that offers pg                       *)
OnListPage(pg) ==
    [Page_Manager_Init(NoExitHooks)
        EXCEPT !.current_page = pg,
               !.history_stack = [i \in 0 .. (PAGE_HISTORY_MAX_DEPTH - 1) |->
                                     CASE i = 0 -> g_page_main
                                       [] i = 1 -> g_page_main_menu
                                       [] i = 2 -> IF pg = g_page_time_dst
                                                   THEN g_page_time_set
                                                   ELSE g_page_display
                                       [] OTHER -> NULL],
               !.history_depth = 3]

(* list page pg has just run its enter hook on settings st *)
InitList ==
    /\ InitInputWith(input_init, 0, 0, Unlimited)
    /\ \E pg \in ListPages, st \in ListSettings :
          /\ InitNavWith(OnListPage(pg))
          /\ InitAppWith(PageEnter([m |-> OnListPage(pg), s |-> input_init,
                                    a |-> app_main_init(st, 0), now |-> 0,
                                    bus |-> SaveOk, ret |-> FALSE], pg).a)

(* Page_Manager_Loop hands a rotation event to the action hook of the list *)
(* page                                                                    *)
ListAction(value) ==
    /\ current_page \in ListPages
    /\ \E x \in {ObservedAction(FreshApp, current_page,
                                  [event |-> INPUT_EVENT_ENCODER,
                                   value |-> value])} :
          CommitApp(x.a)
    /\ op' = "Page_Action"
    /\ UNCHANGED <<driverVars, uwTick, navVars, last_input_tick>>

(* Page_Manager_Loop calls the loop hook of the list page *)
ListLoop ==
    /\ current_page \in ListPages
    /\ \E x \in {ObservedLoop(FreshApp, current_page)} : CommitApp(x.a)
    /\ op' = "Page_Loop"
    /\ UNCHANGED <<driverVars, uwTick, navVars, last_input_tick>>

(* the tick advances by the time of a highlight move *)
ListTick == TickTo(HIGHLIGHT_DURATION, MaxListTick)

NextList ==
    \/ \E value \in ListValues : ListAction(value)
    \/ ListLoop
    \/ ListTick

SpecList == InitList /\ [][NextList]_vars

(* ------------------------------------------------------------------ *)
(* Back presses while a result message is showing                       *)
(* ------------------------------------------------------------------ *)
(* the pages whose action hook takes Back while the message is showing *)
BackPages == {g_page_auto_off, g_page_time_time}

BackEvents ==
    {[event |-> INPUT_EVENT_BACK_PRESSED, value |-> 0],
     [event |-> INPUT_EVENT_COMFIRM_PRESSED, value |-> 0]}

(* a page of BackPages has just run its enter hook *)
InitBack ==
    /\ InitInputWith(input_init, 0, MaxBackEvents, Unlimited)
    /\ \E pg \in BackPages :
       \E m0 \in {IF pg = g_page_auto_off THEN OnListPage(pg) ELSE OnTimePage} :
          /\ InitNavWith(m0)
          /\ InitAppWith(PageEnter([m |-> m0, s |-> input_init,
                                    a |-> app_main_init(DefaultSettings, 0),
                                    now |-> 0, bus |-> SaveOk, ret |-> FALSE],
                                   pg).a)

(* a scan made while a page of BackPages is current ends the debounce of   *)
(* Back or of Confirm and queues the event                                 *)
BackScan ==
    /\ ~PassDue
    /\ manager_state = MANAGER_STATE_IDLE
    /\ current_page \in BackPages
    /\ budget > 0
    /\ \E ev \in BackEvents :
       \E r \in {fifo_push_event(input_tick(InputState, uwTick),
                                 ev.event, ev.value)} :
          /\ Commit(NoResult([r EXCEPT !.drained = 0, !.pending = <<>>,
                                       !.burst = 0]))
          /\ last_input_tick' = uwTick
    /\ budget' = budget - 1
    /\ op' = "scan"
    /\ count_ret' = NoCall
    /\ UNCHANGED <<uwTick, pc_main, reads>>
    /\ UNCHANGED <<navVars, appVars>>

(* the tick moves to the instant the next timer runs out, or by MessageLate *)
(* milliseconds when no timer runs out before                              *)
BackTick ==
    /\ ~PassDue
    /\ fifo_count = 0 \/ manager_state = MANAGER_STATE_ANIMATING
    /\ Timers # {}
    /\ \E d \in {r \in Timers : \A q \in Timers : r <= q}
                  \cup {r \in {MessageLate} : \A q \in Timers : r < q} :
          TickTo(d, MaxBackTick)

BackPass ==
    /\ PassDue
    /\ AppLoop

NextBack ==
    \/ BackPass
    \/ BackScan
    \/ BackTick

SpecBack == InitBack /\ [][NextBack]_vars

(* ------------------------------------------------------------------ *)
(* The scan interrupt between the steps of app_main_loop                *)
(* ------------------------------------------------------------------ *)
(* The scan timer interrupts the main loop between any two of its          *)
(* statements.  app_main_loop is run in two steps, check_user_activity     *)
(* with handle_auto_off and then Page_Manager_Loop, and a scan may fall    *)
(* between the two as well as between two passes.                          *)
InitRace ==
    /\ InitInputWith(input_init, 0, MaxRaceScans, Unlimited)
    /\ InitNavWith(OnListPage(g_page_auto_off))
    /\ InitAppWith(Page_Auto_Off_Enter(
                       [m |-> OnListPage(g_page_auto_off), s |-> input_init,
                        a |-> app_main_init(DefaultSettings, 0), now |-> 0,
                        bus |-> SaveOk, ret |-> FALSE]).a)

(* check_user_activity(); handle_auto_off(); *)
RaceHead ==
    /\ pc_main = "idle"
    /\ \E x \in {handle_auto_off(check_user_activity(FreshApp))} :
          /\ CommitNav(x.m)
          /\ Commit(x.s)
          /\ CommitApp(x.a)
    /\ pc_main' = "checked"
    /\ roundTrip' = NoRoundTrip
    /\ op' = "check_user_activity"
    /\ nav_arg' = NULL
    /\ pre_depth' = history_depth
    /\ count_ret' = NoCall
    /\ UNCHANGED <<uwTick, budget, reads, last_input_tick>>

(* if (is_screen_on) Page_Manager_Loop(); *)
RaceTail ==
    /\ pc_main = "checked"
    /\ \E x \in {IF is_screen_on THEN Page_Manager_Loop_Hooks(FreshApp)
                                 ELSE FreshApp} :
          /\ CommitNav(x.m)
          /\ Commit(x.s)
          /\ CommitApp(x.a)
    /\ pc_main' = "idle"
    /\ roundTrip' = NoRoundTrip
    /\ op' = "Page_Manager_Loop"
    /\ nav_arg' = NULL
    /\ pre_depth' = history_depth
    /\ count_ret' = NoCall
    /\ UNCHANGED <<uwTick, budget, reads, last_input_tick>>

(* the scan timer fires a millisecond later and finds the knob at rest or  *)
(* one step further                                                        *)
RaceScan == \E step \in {0, 1} : Scan(AllReleased, step, 1)

NextRace ==
    \/ RaceHead
    \/ RaceTail
    \/ RaceScan

SpecRace == InitRace /\ [][NextRace]_vars

(* ------------------------------------------------------------------ *)
(* The screen turned off by the auto-off timeout                        *)
(* ------------------------------------------------------------------ *)
(* The stored setting turns the screen off after 30 s.  The user walks     *)
(* from the home page into the menus and leaves the clock alone; scans     *)
(* that find the knob moved fall anywhere between the steps of the main    *)
(* loop, before and after the screen has gone off.                         *)
InitOff ==
    /\ InitInputWith(input_init, 0, MaxOffScans, Unlimited)
    /\ InitNavWith(Page_Manager_Init(NoExitHooks))
    /\ InitAppWith(app_main_init([DefaultSettings EXCEPT !.auto_off = 1], 0))

OffSwitch == \E pg \in {g_page_main_menu, g_page_display} : MenuSwitch(pg)

OffScan == Scan(AllReleased, 1, 1)

(* the tick moves to the instant the next timer runs out, or by QuietTime  *)
(* when no timer is running                                                *)
OffTick ==
    /\ ~PassDue
    /\ pc_main = "idle"
    /\ fifo_count = 0 \/ manager_state = MANAGER_STATE_ANIMATING
    /\ TickTo(IF Timers = {} THEN QuietTime
              ELSE CHOOSE r \in Timers : \A q \in Timers : r <= q,
              MaxOffTick)

NextOff ==
    \/ RaceHead
    \/ RaceTail
    \/ OffSwitch
    \/ OffScan
    \/ OffTick

(* while(1) in main keeps calling app_main_loop() *)
SpecOff ==
    InitOff /\ [][NextOff]_vars /\ WF_vars(RaceHead) /\ WF_vars(RaceTail)

(* ------------------------------------------------------------------ *)
(* Event queue                                                          *)
(* ------------------------------------------------------------------ *)
(* the events stored in the ring, oldest first *)
RingContents ==
    [i \in 1 .. fifo_count |->
        input_event_fifo[(fifo_tail + i - 1) % INPUT_FIFO_SIZE]]

(* C1: the ring holds, oldest first, exactly the events that were stored   *)
(* and not yet read, in the order they were pushed, and every pop returns  *)
(* the oldest of them; after k <= 32 pushes on an empty queue with no pop  *)
(* in between all k are stored, and after 33 the 33rd alone was dropped    *)
(* and the 32 stored ones are the first 32, in push order.                 *)
FifoOrder ==
    /\ RingContents = pending
    /\ pop_ret = 1 => pop_event = pop_expect
    /\ \A i \in 1 .. (fifo_count - 1) :
          RingContents[i].timestamp < RingContents[i + 1].timestamp
    /\ (burst >= 1 /\ burst <= INPUT_FIFO_SIZE) =>
          /\ fifo_count = burst
          /\ push_ret = 1
    /\ burst = INPUT_FIFO_SIZE + 1 =>
          /\ fifo_count = INPUT_FIFO_SIZE
          /\ push_ret = 0
          /\ \A i \in 1 .. INPUT_FIFO_SIZE :
                RingContents[i].timestamp = system_tick - INPUT_FIFO_SIZE - 1 + i

(* 33 pushes on the empty queue, the last one dropped, then 32 pops in a   *)
(* row, the last of which returned the 32nd event pushed                   *)
FifoOrderWitness ==
    /\ drained = INPUT_FIFO_SIZE
    /\ push_ret = 0
    /\ fifo_count = 0
    /\ pop_ret = 1
    /\ pop_event.timestamp = system_tick - 1

(* C2: 0 <= fifo_count <= 32 and fifo_head = (fifo_tail + fifo_count) mod  *)
(* 32 in every state the main loop or the interrupt can observe.           *)
FifoShape ==
    /\ fifo_count >= 0
    /\ fifo_count <= INPUT_FIFO_SIZE
    /\ fifo_head = (fifo_tail + fifo_count) % INPUT_FIFO_SIZE

(* the interrupt pushed between the test and the critical section of a     *)
(* pop and the ring has wrapped                                            *)
FifoShapeWitness ==
    /\ pc_main = "pop_cs"
    /\ op = "scan"
    /\ fifo_head < fifo_tail
    /\ fifo_count > 1

(* C3: a push on a full queue returns 0 and changes neither head, tail,    *)
(* count nor any slot; a get on an empty queue returns 0 and changes       *)
(* neither head, tail nor count.                                           *)
FifoRefusals ==
    [][/\ (op' = "scan" /\ fifo_count = INPUT_FIFO_SIZE) =>
            /\ push_ret' = 0
            /\ UNCHANGED <<input_event_fifo, fifo_head, fifo_tail, fifo_count>>
       /\ (op' = "get" /\ pc_main = "idle" /\ fifo_count = 0) =>
            /\ pop_ret' = 0
            /\ UNCHANGED <<input_event_fifo, fifo_head, fifo_tail, fifo_count>>
      ]_vars

(* a push was refused on the full queue and a get was refused on the       *)
(* queue emptied after it                                                  *)
FifoRefusalsWitness ==
    /\ op = "get"
    /\ pop_ret = 0
    /\ push_ret = 0
    /\ fifo_count = 0
    /\ fifo_tail = 0
    /\ system_tick > INPUT_FIFO_SIZE

(* C4, as amended: in every press-release cycle of every key exactly one   *)
(* fifo_push_event call is made, at the scan that sees the second          *)
(* consecutive asserted sample, however long the key stays held; the       *)
(* event is stored exactly when the queue held fewer than 32 events at     *)
(* that scan, and is dropped otherwise.                                    *)
KeyPressOnce ==
    \A k \in Keys :
        /\ keyObs[k].run >= INPUT_KEY_DEBOUNCE =>
              /\ keyObs[k].calls = 1
              /\ keyObs[k].callAt = INPUT_KEY_DEBOUNCE
              /\ keyObs[k].enq = IF keyObs[k].fullAt THEN 0 ELSE 1
              /\ Key[k].state = INPUT_STATE_PRESSED
        /\ keyObs[k].run < INPUT_KEY_DEBOUNCE =>
              /\ keyObs[k].calls = 0
              /\ keyObs[k].enq = 0

(* a key held for three scans or more whose press event was stored, and a  *)
(* key held as long whose press event met the full queue                   *)
KeyPressOnceWitness ==
    \E k, j \in Keys :
        /\ keyObs[k].run > INPUT_KEY_DEBOUNCE
        /\ keyObs[k].enq = 1
        /\ keyObs[j].run > INPUT_KEY_DEBOUNCE
        /\ keyObs[j].fullAt

(* C4 as stated: every press-release cycle puts exactly one press event    *)
(* into the event queue.                                                   *)
KeyPressOnceStored ==
    \A k \in Keys :
        /\ keyObs[k].run >= INPUT_KEY_DEBOUNCE => keyObs[k].enq = 1
        /\ keyObs[k].run < INPUT_KEY_DEBOUNCE => keyObs[k].enq = 0

(* C5: while the pin of a key has never been asserted on two consecutive   *)
(* scans the key has pushed no event and is not Pressed; a de-asserted     *)
(* sample taken while Debouncing leaves the key Idle with counter 0.       *)
KeyGlitchRejected ==
    \A k \in Keys :
        /\ keyObs[k].glitchOnly =>
              /\ ~keyObs[k].everCalled
              /\ Key[k].state # INPUT_STATE_PRESSED
        /\ (keyObs[k].lastPin = GPIO_PIN_SET /\ keyObs[k].prevState = INPUT_STATE_DEBOUNCE) =>
              /\ Key[k].state = INPUT_STATE_IDLE
              /\ Key[k].debounce_count = 0

(* a key that was asserted for one scan, released, asserted again for one  *)
(* scan: the second glitch is being debounced                              *)
KeyGlitchRejectedWitness ==
    \E k \in Keys :
        /\ keyObs[k].glitchOnly
        /\ keyObs[k].run = 1
        /\ keyObs[k].prevState = INPUT_STATE_IDLE
        /\ Key[k].state = INPUT_STATE_DEBOUNCE
        /\ budget = MaxKeyScans - 3

(* C6, as amended: the deltas of the rotation events stored in the queue   *)
(* plus the deltas of the rotation events dropped on a full queue sum,     *)
(* modulo 2^16, to the counter value seen by the latest scan minus the     *)
(* value at Encoder_Reset (0), and last_encoder_count is that value; so    *)
(* the stored deltas alone sum to it as long as no push was dropped.       *)
EncoderTracked ==
    /\ (encObs.enq + encObs.drop) % TwoPow16 = TIM_CNT
    /\ last_encoder_count = TIM_CNT
    /\ encObs.drop = 0 => encObs.enq = TIM_CNT

(* a rotation was dropped on the full queue, the main loop then made room  *)
(* and a later rotation was stored                                         *)
EncoderTrackedWitness ==
    /\ encObs.drop # 0
    /\ op = "scan"
    /\ push_ret = 1
    /\ input_event_fifo[(fifo_head + INPUT_FIFO_SIZE - 1) % INPUT_FIFO_SIZE].event = INPUT_EVENT_ENCODER

(* C6 as stated: the deltas of the rotation events in the queue sum to     *)
(* final_counter - initial_counter modulo 2^16.                            *)
EncoderLossless ==
    encObs.enq = TIM_CNT

(* C7: a _Switch_Page_Internal call whose target is the current page, or   *)
(* that is made during a transition, returns the manager as it found it    *)
(* and calls no hook; so does Switch_Page as a whole: current page, from,  *)
(* to, start time, state and history stack are unchanged.                  *)
RefusedSwitchIsNoOp ==
    [][/\ (sw'.target # NULL /\ (sw'.target = sw'.pre.current_page
                                  \/ sw'.pre.state = MANAGER_STATE_ANIMATING)) =>
            sw'.post = sw'.pre
       /\ (op' = "Switch_Page" /\ (nav_arg' = current_page
                                    \/ manager_state = MANAGER_STATE_ANIMATING)) =>
            /\ UNCHANGED <<current_page, manager_state, page_from, page_to,
                           anim_start_time, anim_duration, history_stack,
                           history_depth>>
            /\ calls' = <<>>
      ]_vars

(* Switch_Page was called during a transition with a page that is neither  *)
(* the current page nor the page the transition leads to                   *)
RefusedSwitchWitness ==
    /\ op = "Switch_Page"
    /\ sw.target # NULL
    /\ sw.pre.state = MANAGER_STATE_ANIMATING
    /\ sw.target # sw.pre.current_page
    /\ sw.target # sw.pre.page_to

(* C8: an accepted switch calls, inside the call and in this order, the    *)
(* exit hook of the old page (when the page object sets one), the enter    *)
(* hook of the new page, and only then sets the state to Transitioning;    *)
(* so during every transition the page last entered is the `to` page, and  *)
(* Page_Manager_Loop never calls an enter hook, not even on the tick that  *)
(* finishes the transition.                                                *)
SwitchHooksOrder ==
    /\ (sw.target # NULL /\ sw.target # sw.pre.current_page
                         /\ sw.pre.state = MANAGER_STATE_IDLE) =>
          /\ sw.post.calls =
                (IF page_exit[sw.pre.current_page]
                 THEN << <<"exit", sw.pre.current_page>> >> ELSE <<>>)
                \o << <<"enter", sw.target>>, <<"start">> >>
          /\ sw.post.state = MANAGER_STATE_ANIMATING
          /\ sw.post.page_to = sw.target
    /\ manager_state = MANAGER_STATE_ANIMATING => last_enter = page_to
    /\ op = "Loop" => \A i \in 1 .. Len(calls) : calls[i][1] # "enter"

(* a switch was accepted from a page that sets its exit hook *)
SwitchHooksOrderWitness ==
    /\ sw.target # NULL
    /\ sw.pre.state = MANAGER_STATE_IDLE
    /\ Len(sw.post.calls) = 3
    /\ sw.post.calls[1] = <<"exit", sw.pre.current_page>>
    /\ manager_state = MANAGER_STATE_ANIMATING

(* C9 as stated: Switch_Page(B) called in the Idle state on page A and     *)
(* followed at once by Go_Back_Page() leaves, when the manager is Idle     *)
(* again, page A current and the history as it was before the switch.      *)
SwitchThenBackReturns ==
    (roundTrip.phase = "back" /\ manager_state = MANAGER_STATE_IDLE) =>
        /\ current_page = roundTrip.orig
        /\ History(NavState) = roundTrip.hist

(* C10: Go_Back_Page() called with an empty history stack changes neither  *)
(* the current page, the manager state, from/to, the transition clock nor  *)
(* the history, and calls no hook.                                         *)
BackOnEmptyIsNoOp ==
    [][(op' = "Go_Back_Page" /\ history_depth = 0) =>
          /\ UNCHANGED <<current_page, manager_state, page_from, page_to,
                         anim_start_time, anim_duration, history_stack,
                         history_depth>>
          /\ calls' = <<>>
      ]_vars

(* Go_Back_Page() was called with an empty history on a page other than    *)
(* the home page                                                           *)
BackOnEmptyWitness ==
    /\ op = "Go_Back_Page"
    /\ pre_depth = 0
    /\ manager_state = MANAGER_STATE_IDLE
    /\ current_page # g_page_main

(* ------------------------------------------------------------------ *)
(* History stack, transitions, hard reset                               *)
(* ------------------------------------------------------------------ *)
(* C11: the history depth stays within 0 .. PAGE_HISTORY_MAX_DEPTH, and a  *)
(* recording switch accepted while the stack holds 8 entries still starts  *)
(* the transition to its target but pushes nothing: the depth stays 8 and  *)
(* the 8 entries, the oldest included, are the ones that were there.       *)
HistoryBounded ==
    /\ history_depth \in 0 .. PAGE_HISTORY_MAX_DEPTH
    /\ (/\ sw.target # NULL
        /\ sw.record
        /\ sw.pre.state = MANAGER_STATE_IDLE
        /\ sw.target # sw.pre.current_page
        /\ sw.pre.history_depth = PAGE_HISTORY_MAX_DEPTH) =>
          /\ sw.post.state = MANAGER_STATE_ANIMATING
          /\ sw.post.page_from = sw.pre.current_page
          /\ sw.post.page_to = sw.target
          /\ sw.post.history_depth = PAGE_HISTORY_MAX_DEPTH
          /\ sw.post.history_stack = sw.pre.history_stack

(* Switch_Page was accepted with 8 pages on the history stack, the oldest  *)
(* of them the home page, from a page other than the one on top            *)
HistoryBoundedWitness ==
    /\ op = "Switch_Page"
    /\ sw.target # NULL
    /\ sw.pre.state = MANAGER_STATE_IDLE
    /\ sw.pre.history_depth = PAGE_HISTORY_MAX_DEPTH
    /\ sw.post.state = MANAGER_STATE_ANIMATING
    /\ history_stack[0] = g_page_main
    /\ history_stack[1] = g_page_main_menu

(* C12: whenever the manager is Transitioning, page_from and page_to are   *)
(* both set and are different pages.                                       *)
TransitionEndsDistinct ==
    manager_state = MANAGER_STATE_ANIMATING =>
        /\ page_from # NULL
        /\ page_to # NULL
        /\ page_from # page_to

(* a transition is in flight that was started after an earlier one had     *)
(* left its from/to pair behind                                            *)
TransitionEndsDistinctWitness ==
    /\ manager_state = MANAGER_STATE_ANIMATING
    /\ op = "Go_Back_Page"
    /\ sw.target # NULL
    /\ sw.pre.state = MANAGER_STATE_IDLE
    /\ sw.pre.page_from # NULL
    /\ sw.pre.page_from # page_from

TransitionKept ==
    /\ manager_state' = MANAGER_STATE_ANIMATING
    /\ UNCHANGED <<page_from, page_to, anim_start_time, anim_duration,
                   current_page>>

(* the step is the poll that ends the transition in flight *)
TransitionFinalized ==
    /\ op' = "Loop"
    /\ uwTick - anim_start_time >= anim_duration
    /\ manager_state' = MANAGER_STATE_IDLE
    /\ current_page' = page_to

(* C14 as stated: a transition in flight keeps its from/to pair until a    *)
(* poll that finds elapsed >= duration ends it with current = to; no       *)
(* operation ends it in another way.                                       *)
TransitionNeverAborted ==
    [][manager_state = MANAGER_STATE_ANIMATING =>
          TransitionKept \/ TransitionFinalized]_vars

(* C14: a transition in flight keeps its from/to pair until a poll that    *)
(* finds elapsed >= duration ends it with current = to, or                 *)
(* Page_Manager_Go_Home() cuts it short and leaves the home page current   *)
(* and the manager Idle; Switch_Page, Go_Back_Page and polls before the    *)
(* duration has elapsed do not end or redirect it.  With the main loop     *)
(* polling and the tick advancing, every transition ends.                  *)
TransitionRunsToEnd ==
    /\ [][(manager_state = MANAGER_STATE_ANIMATING /\ op' # "Go_Home") =>
             TransitionKept \/ TransitionFinalized]_vars
    /\ [][(manager_state = MANAGER_STATE_ANIMATING /\ op' = "Go_Home") =>
             /\ manager_state' = MANAGER_STATE_IDLE
             /\ current_page' = g_page_main
             /\ history_depth' = 0]_vars
    /\ (/\ manager_state = MANAGER_STATE_ANIMATING
        /\ anim_start_time + anim_duration <= MaxTick)
          ~> (manager_state = MANAGER_STATE_IDLE)

(* a transition to the menu ended at its poll although Go_Back_Page() was  *)
(* called while it was in flight                                           *)
TransitionRunsToEndWitness ==
    /\ op = "Loop"
    /\ manager_state = MANAGER_STATE_IDLE
    /\ current_page = g_page_main_menu
    /\ page_to = g_page_main_menu
    /\ history_depth = 0
    /\ calls = << <<"draw", g_page_main_menu, 0>> >>

(* ------------------------------------------------------------------ *)
(* Automatic screen-off                                                 *)
(* ------------------------------------------------------------------ *)
(* C15: with the auto_off setting at index 2 (1 minute), once 61 seconds   *)
(* of tick time have passed without an input event a pass of the main loop *)
(* has turned the screen off and called Page_Manager_Go_Home(): the home   *)
(* page is current, the manager is Idle and the history is empty.          *)
AutoOffAfterQuiet ==
    /\ op = "app_main_loop"
    /\ g_app_settings.auto_off = 2
    /\ uwTick - last_input_tick >= 61000
    => /\ ~is_screen_on
       /\ current_page = g_page_main
       /\ manager_state = MANAGER_STATE_IDLE
       /\ history_depth = 0

(* ------------------------------------------------------------------ *)
(* List pages                                                           *)
(* ------------------------------------------------------------------ *)
(* the setting a list page edits *)
SettingOf(st, pg) ==
    CASE pg = g_page_auto_off -> st.auto_off
      [] pg = g_page_language -> st.language
      [] pg = g_page_time_dst -> st.dst_enabled

(* C16: on the auto-off, language and DST pages an event dispatched while  *)
(* a highlight animation runs changes nothing; while the message is shown  *)
(* a rotation or a Confirm changes nothing and a Back press calls          *)
(* Go_Back_Page().                                                         *)
ListInputGating ==
    op = "app_main_loop" /\ appObs.act.page \in ListPages
    => LET act == appObs.act
           ignored == /\ act.post = act.pre
                      /\ act.settings = act.before
                      /\ act.backs = 0
       IN  /\ act.pre.state \notin {IdleState(act.page), ShowMsgState(act.page)}
                => ignored
           /\ act.pre.state = ShowMsgState(act.page)
                => IF act.event = INPUT_EVENT_BACK_PRESSED
                   THEN act.backs = 1
                   ELSE ignored

(* a Confirm dispatched in Idle stores the selected index in the setting   *)
(* and starts the message                                                  *)
ConfirmCommits ==
    LET act == appObs.act IN
    /\ op = "app_main_loop"
    /\ act.page \in ListPages
    /\ act.event = INPUT_EVENT_COMFIRM_PRESSED
    /\ act.pre.state = IdleState(act.page)
    => /\ SettingOf(act.settings, act.page) = act.pre.selected_index
       /\ act.post.state = ShowMsgState(act.page)
       /\ act.post.msg_start_time = act.at
       /\ act.backs = 0

DayClamped ==
    LET act == appObs.act IN
    /\ op = "Page_Action"
    /\ act.page = g_page_time_date
    /\ act.event = INPUT_EVENT_ENCODER
    /\ act.pre.state = DATE_STATE_FOCUSED
    => LET old == act.pre.temp_date
           new == act.post.temp_date
           len == get_max_days_in_month(new.year, new.month)
       IN  /\ 1 <= new.day
           /\ new.day <= len
           /\ act.pre.focus_index \in {0, 1} /\ old.day > len => new.day = len

(* reached: 2024-02-29 with the year turned to 2025 gives day 28 *)
DayClampedWitness ==
    LET act == appObs.act IN
    /\ op = "Page_Action"
    /\ act.page = g_page_time_date
    /\ act.pre.focus_index = 0
    /\ act.value = 1
    /\ act.pre.temp_date.year = 2024
    /\ act.pre.temp_date.month = 2
    /\ act.pre.temp_date.day = 29
    /\ act.post.temp_date.year = 2025
    /\ act.post.temp_date.month = 2
    /\ act.post.temp_date.day = 28
    /\ act.post.state = DATE_STATE_SLOT_ROLLING

(* the write a Confirm of a picker page makes: one DS3231_SetTime call     *)
(* that stores the edited fields of the page and, in the other fields,     *)
(* what the RTC held before the call                                       *)
ConfirmWrites(act) ==
    LET held == DS3231_GetTime(act.rtc_before)
        written == DS3231_GetTime(act.rtc)
    IN  /\ act.sets = 1
        /\ written.week = held.week
        /\ IF act.page = g_page_time_time
           THEN /\ written.hour = act.pre.temp_time.hour
                /\ written.minute = act.pre.temp_time.minute
                /\ written.second = act.pre.temp_time.second
                /\ written.year = held.year
                /\ written.month = held.month
                /\ written.day = held.day
           ELSE /\ written.year = act.pre.temp_date.year
                /\ written.month = act.pre.temp_date.month
                /\ written.day = act.pre.temp_date.day
                /\ written.hour = held.hour
                /\ written.minute = held.minute
                /\ written.second = held.second

(* C19 as stated: a Confirm on a picker page writes the edited fields and  *)
(* keeps the others as the RTC held them, the page shows its message, and  *)
(* once 1000 ms have passed its loop has called Go_Back_Page().            *)
ConfirmAlwaysWrites ==
    LET act == appObs.act IN
    /\ op = "app_main_loop" /\ act.page \in PickerPages
         /\ act.event = INPUT_EVENT_COMFIRM_PRESSED
       => /\ ConfirmWrites(act)
          /\ act.post.state = ShowMsgState(act.page)
    /\ op = "app_main_loop" /\ appObs.confirm.page \in PickerPages
         /\ uwTick - appObs.confirm.at >= MSG_DURATION
       => appObs.confirm.backs = 1

(* C19, amended: a Confirm dispatched to a picker page in Focused writes   *)
(* the edited fields and keeps the others as the RTC held them at the      *)
(* Confirm, and the page shows its message; a Confirm dispatched in any    *)
(* other sub-state writes nothing and changes nothing; the loop of the     *)
(* page calls Go_Back_Page() at most once for a Confirm, and exactly once  *)
(* when 1000 ms have passed, unless a Back press honoured during the       *)
(* message (time page) has already left the page.                          *)
ConfirmWritesFocused ==
    LET act == appObs.act IN
    /\ op = "app_main_loop" /\ act.page \in PickerPages
         /\ act.event = INPUT_EVENT_COMFIRM_PRESSED
       => IF act.pre.state = IdleState(act.page)
          THEN /\ ConfirmWrites(act)
               /\ act.post.state = ShowMsgState(act.page)
               /\ act.post.msg_start_time = act.at
               /\ act.backs = 0
          ELSE /\ act.sets = 0
               /\ act.rtc = act.rtc_before
               /\ act.post = act.pre
               /\ act.backs = 0
    /\ appObs.confirm.page \in PickerPages
       => /\ appObs.confirm.backs <= 1
          /\ op = "app_main_loop" /\ uwTick - appObs.confirm.at >= MSG_DURATION
               /\ ~appObs.confirm.left
             => appObs.confirm.backs = 1

(* reached: a Confirm on the date page in Focused, after the RTC has moved *)
(* on since the page read it, has written the RTC                          *)
ConfirmWritesFocusedWitness ==
    LET act == appObs.act IN
    /\ op = "app_main_loop"
    /\ act.page = g_page_time_date
    /\ act.event = INPUT_EVENT_COMFIRM_PRESSED
    /\ act.pre.state = DATE_STATE_FOCUSED
    /\ act.sets = 1
    /\ DS3231_GetTime(act.rtc_before).hour # act.pre.temp_date.hour
    /\ act.rtc # act.rtc_before

(* C20: a Back press dispatched to a picker page in a sub-state other than *)
(* Rolling calls Go_Back_Page() and does not call DS3231_SetTime; a Back   *)
(* press dispatched while Rolling calls nothing and changes nothing.       *)
PickerBack ==
    LET act == appObs.act IN
    op = "app_main_loop" /\ act.page \in PickerPages
       /\ act.event = INPUT_EVENT_BACK_PRESSED
    => IF act.pre.state = DATE_STATE_SLOT_ROLLING
       THEN /\ act.backs = 0
            /\ act.sets = 0
            /\ act.post = act.pre
       ELSE /\ act.backs = 1
            /\ act.sets = 0
            /\ act.rtc = act.rtc_before

(* ------------------------------------------------------------------ *)
(* Failure of app_settings_save                                         *)
(* ------------------------------------------------------------------ *)
(* a Confirm dispatched to a list page in Idle calls app_settings_save     *)
(* once and shows "Settings Saved!" when it returned true, "Save Failed!"  *)
(* when it returned false; no other hook of a pass calls it                *)
SaveReported ==
    LET act == appObs.act IN
    op = "app_main_loop" =>
        IF /\ act.page \in ListPages
           /\ act.event = INPUT_EVENT_COMFIRM_PRESSED
           /\ act.pre.state = IdleState(act.page)
        THEN /\ appObs.saves = 1
             /\ act.saves = 1
             /\ act.post.state = ShowMsgState(act.page)
             /\ act.post.msg_text = IF act.save_ret THEN "Settings Saved!"
                                                    ELSE "Save Failed!"
        ELSE appObs.saves = 0

QueueAccessMasked ==
    unmasked = {}

(* ------------------------------------------------------------------ *)
(* One scan of the encoder                                              *)
(* ------------------------------------------------------------------ *)
(* C23: on every scan Encoder_Update calls fifo_push_event for a rotation  *)
(* event exactly when the 16-bit counter differs from last_encoder_count;  *)
(* the value it passes, and that the queue stores when it has room, is     *)
(* (current - last) mod 2^16 read as a signed 16-bit number (65535 -> 0    *)
(* gives +1, 0 -> 65535 gives -1); last_encoder_count becomes the current  *)
(* counter.                                                                *)
EncoderDelta ==
    [][op' = "scan" =>
          LET current == TIM_CNT'
              last == last_encoder_count
              d == (current - last) % TwoPow16
              delta == IF d >= TwoPow15 THEN d - TwoPow16 ELSE d
              slot == input_event_fifo'[(fifo_head' + INPUT_FIFO_SIZE - 1)
                                            % INPUT_FIFO_SIZE]
          IN  /\ push_ret' # NoCall <=> current # last
              /\ push_ret' = 1 <=> (current # last /\ fifo_count < INPUT_FIFO_SIZE)
              /\ push_ret' = 1 =>
                    /\ slot = [event |-> INPUT_EVENT_ENCODER, value |-> delta,
                               timestamp |-> system_tick']
                    /\ fifo_count' = fifo_count + 1
              /\ push_ret' # 1 =>
                    UNCHANGED <<input_event_fifo, fifo_head, fifo_tail, fifo_count>>
              /\ (current = 0 /\ last = TwoPow16 - 1) => delta = 1
              /\ (current = TwoPow16 - 1 /\ last = 0) => delta = 0 - 1
              /\ last_encoder_count' = current
      ]_vars

(* reached: the counter has wrapped from 65535 to 0 between two scans and  *)
(* the rotation event +1 was stored                                        *)
EncoderDeltaWitness ==
    /\ op = "scan"
    /\ TIM_CNT = 0
    /\ last_encoder_count = 0
    /\ push_ret = 1
    /\ input_event_fifo[(fifo_head + INPUT_FIFO_SIZE - 1) % INPUT_FIFO_SIZE]
          = [event |-> INPUT_EVENT_ENCODER, value |-> 1, timestamp |-> system_tick]

(* ------------------------------------------------------------------ *)
(* Polls during a transition                                            *)
(* ------------------------------------------------------------------ *)
(* C24: the poll that finds the elapsed time of a transition at or beyond  *)
(* its duration sets current = to, returns to Idle, clears from and to,    *)
(* and draws the new current page once at offset 0 whatever its refresh    *)
(* interval.                                                               *)
FinalizeClears ==
    [][(/\ op' = "Loop"
        /\ manager_state = MANAGER_STATE_ANIMATING
        /\ uwTick - anim_start_time >= anim_duration) =>
          /\ current_page' = page_to
          /\ manager_state' = MANAGER_STATE_IDLE
          /\ page_from' = NULL
          /\ page_to' = NULL
          /\ calls' = << <<"draw", page_to, 0>> >>
      ]_vars

(* C25: every poll that begins with the manager Transitioning calls the    *)
(* loop hook of the from page and the loop hook of the to page (of each    *)
(* page that sets one).                                                    *)
BothLoopsEveryTick ==
    [][(op' = "Loop" /\ manager_state = MANAGER_STATE_ANIMATING) =>
          \A pg \in {page_from, page_to} :
              HasLoop(pg) => \E i \in 1 .. Len(calls') : calls'[i] = <<"loop", pg>>
      ]_vars

(* C26: a poll that finds the elapsed time e of a transition below its     *)
(* duration draws the from page at x = -floor(W * e / duration) and the to *)
(* page at x = W - floor(W * e / duration), W being the display width: at  *)
(* e = 0 the from page is at 0 and the to page at W, and the two offsets   *)
(* differ by W; a poll that finds e >= duration draws the to page alone,   *)
(* at offset 0.                                                            *)
SlideOffsets ==
    [][(op' = "Loop" /\ manager_state = MANAGER_STATE_ANIMATING) =>
          LET e == uwTick - anim_start_time
              shift == (DisplayWidth * e) \div anim_duration
              draws == SelectSeq(calls', LAMBDA c : c[1] = "draw")
          IN  IF e < anim_duration
              THEN /\ draws = << <<"draw", page_from, 0 - shift>>,
                                 <<"draw", page_to, DisplayWidth - shift>> >>
                   /\ draws[2][3] - draws[1][3] = DisplayWidth
                   /\ e = 0 => draws[1][3] = 0 /\ draws[2][3] = DisplayWidth
              ELSE draws = << <<"draw", page_to, 0>> >>
      ]_vars

(* reached: the poll one millisecond before the end of a transition has    *)
(* drawn the home page at -127 and the new page at 1                       *)
SlideOffsetsWitness ==
    /\ op = "Loop"
    /\ manager_state = MANAGER_STATE_ANIMATING
    /\ uwTick - anim_start_time = ANIM_DURATION - 1
    /\ \E i \in 1 .. Len(calls) : calls[i] = <<"draw", g_page_main, 0 - 127>>
    /\ \E i \in 1 .. Len(calls) : calls[i] = <<"draw", page_to, 1>>

(* C27: a poll of Page_Manager_Loop that begins Idle with a non-empty      *)
(* queue removes exactly the oldest event and calls the action hook of the *)
(* page that is current at that moment, once, with that event; a poll that *)
(* begins Transitioning, or with an empty queue, removes nothing and calls *)
(* no action hook.  The queue therefore keeps the events that arrive       *)
(* during a transition, and the polls after it hand them oldest first to   *)
(* the page the transition ended on.                                       *)
EventDispatch ==
    [][op' = "Loop" =>
          LET acts == SelectSeq(calls', LAMBDA c : c[1] = "action") IN
          IF /\ manager_state = MANAGER_STATE_IDLE
             /\ current_page # NULL
             /\ fifo_count > 0
          THEN /\ acts = << <<"action", current_page,
                              RingContents[1].event>> >>
               /\ pop_ret' = 1
               /\ pop_event' = RingContents[1]
               /\ RingContents' = Tail(RingContents)
               /\ current_page' = current_page
          ELSE /\ acts = <<>>
               /\ RingContents' = RingContents
               /\ fifo_tail' = fifo_tail
               /\ manager_state = MANAGER_STATE_ANIMATING =>
                     /\ unmasked' = unmasked
                     /\ manager_state' = MANAGER_STATE_IDLE =>
                           current_page' = page_to
      ]_vars

(* reached: three events were queued during the transition to the menu;    *)
(* the second poll after its end has just handed the second of them to the *)
(* menu, and the third is still queued                                     *)
EventDispatchWitness ==
    /\ op = "Loop"
    /\ manager_state = MANAGER_STATE_IDLE
    /\ current_page = g_page_main_menu
    /\ uwTick >= ANIM_DURATION
    /\ pop_ret = 1
    /\ pop_event.timestamp = 2
    /\ \E i \in 1 .. Len(calls) :
          calls[i] = <<"action", g_page_main_menu, INPUT_EVENT_ENCODER>>
    /\ fifo_count = 1
    /\ RingContents[1].timestamp = 3

(* C28: on every list-selector page a rotation event with value d taken in *)
(* the Idle sub-state sets selected_index to (old_index + d) mod           *)
(* item_count, for every d, so that selected_index stays in                *)
(* [0, item_count).                                                        *)
RotationWraps ==
    (/\ op = "Page_Action"
     /\ appObs.act.page \in ListPages
     /\ appObs.act.event = INPUT_EVENT_ENCODER
     /\ appObs.act.pre.state = IdleState(appObs.act.page)) =>
        /\ appObs.act.post.selected_index =
              (appObs.act.pre.selected_index + appObs.act.value)
                  % ItemCount(appObs.act.page)
        /\ appObs.act.post.selected_index \in
              0 .. (ItemCount(appObs.act.page) - 1)

(* C29: on the auto-off list, after enter and after every rotation event,  *)
(* viewport_top_index <= selected_index < viewport_top_index + 4 and       *)
(* 0 <= viewport_top_index <= 1; the highlight animation a rotation starts *)
(* lasts 200 ms exactly when that rotation changed viewport_top_index, and *)
(* 120 ms otherwise.                                                       *)
ViewportKeepsSelection ==
    /\ current_page = g_page_auto_off =>
          /\ g_page_auto_off_data.viewport_top_index
                <= g_page_auto_off_data.selected_index
          /\ g_page_auto_off_data.selected_index
                < g_page_auto_off_data.viewport_top_index + VISIBLE_ITEMS
          /\ g_page_auto_off_data.viewport_top_index
                \in 0 .. (AUTO_OFF_ITEM_COUNT - VISIBLE_ITEMS)
    /\ (/\ op = "Page_Action"
        /\ appObs.act.page = g_page_auto_off
        /\ appObs.act.event = INPUT_EVENT_ENCODER
        /\ appObs.act.pre.state = AUTO_OFF_STATE_IDLE
        /\ appObs.act.post.state = AUTO_OFF_STATE_ANIMATING_HIGHLIGHT) =>
          /\ appObs.act.post.anim_start_time = uwTick
          /\ appObs.act.post.anim_duration =
                IF appObs.act.post.viewport_top_index
                     # appObs.act.pre.viewport_top_index
                THEN 200
                ELSE 120

(* reached: a rotation by -1 from the first item of the list has wrapped   *)
(* to the last one and scrolled the viewport down by one row, in 200 ms    *)
ViewportKeepsSelectionWitness ==
    /\ op = "Page_Action"
    /\ appObs.act.page = g_page_auto_off
    /\ appObs.act.event = INPUT_EVENT_ENCODER
    /\ appObs.act.value = 0 - 1
    /\ appObs.act.pre.selected_index = 0
    /\ appObs.act.pre.viewport_top_index = 0
    /\ g_page_auto_off_data.selected_index = AUTO_OFF_ITEM_COUNT - 1
    /\ g_page_auto_off_data.viewport_top_index = 1
    /\ g_page_auto_off_data.anim_duration = 200

(* the changes a step may make to the sub-state and the focus of picker    *)
(* page pg: d is the page data before the step and e after it, cs the hook *)
(* calls of the step, obs its observers and now its tick                   *)
PickerStep(pg, d, e, cs, obs, now) ==
    LET entered == \E i \in 1 .. Len(cs) : cs[i] = <<"enter", pg>>
        acted(ev) == obs.act.page = pg /\ obs.act.event = ev
    IN  /\ entered => e.state = DATE_STATE_ENTERING /\ e.focus_index = 0
        /\ (~entered /\ e.state # d.state) =>
              CASE d.state = DATE_STATE_ENTERING ->
                     /\ e.state = DATE_STATE_ZOOMING_IN
                     /\ now - d.anim_start_time >= ANIM_DURATION_ENTER
                [] d.state = DATE_STATE_ZOOMING_IN ->
                     e.state = DATE_STATE_FOCUSED
                [] d.state = DATE_STATE_FOCUSED ->
                     \/ e.state = DATE_STATE_SLOT_ROLLING
                           /\ acted(INPUT_EVENT_ENCODER)
                     \/ e.state = DATE_STATE_ZOOMING_OUT
                           /\ acted(INPUT_EVENT_ENCODER_PRESSED)
                     \/ e.state = DATE_STATE_SHOW_MSG
                           /\ acted(INPUT_EVENT_COMFIRM_PRESSED)
                [] d.state = DATE_STATE_SLOT_ROLLING ->
                     e.state = DATE_STATE_FOCUSED
                [] d.state = DATE_STATE_ZOOMING_OUT ->
                     e.state = DATE_STATE_SWITCHING
                [] d.state = DATE_STATE_SWITCHING ->
                     e.state = DATE_STATE_ZOOMING_IN
                [] OTHER -> FALSE
        /\ (~entered /\ d.state = DATE_STATE_SWITCHING
                     /\ e.state = DATE_STATE_ZOOMING_IN) =>
              e.focus_index = (d.focus_index + 1) % SLOT_ITEM_COUNT
        /\ (~entered /\ e.focus_index # d.focus_index) =>
              d.state = DATE_STATE_SWITCHING /\ e.state = DATE_STATE_ZOOMING_IN

(* the loop hook of page pg has called Go_Back_Page() at the end of the    *)
(* message and put the sub-state back to Focused                           *)
MessageLeft(pg, obs) ==
    \E i \in 1 .. Len(obs.loops) :
       /\ obs.loops[i].page = pg
       /\ obs.loops[i].pre.state = DATE_STATE_SHOW_MSG
       /\ obs.loops[i].post.state = DATE_STATE_FOCUSED
       /\ obs.loops[i].backs = 1

(* C30 as stated: the sub-state of a picker page changes only along enter  *)
(* -> Entering -> ZoomingIn -> Focused, Focused -> Rolling -> Focused,     *)
(* Focused -> ZoomingOut -> Switching -> ZoomingIn and Focused ->          *)
(* ShowingMessage, which is left by Go_Back_Page alone; focus_index is     *)
(* reset to 0 on enter, advanced by one modulo 3 by each pass through      *)
(* Switching, and changed nowhere else.                                    *)
PickerEdgesListed ==
    [][\A pg \in PickerPages :
          PickerStep(pg, PageData(AppState, pg), PageData(AppState, pg)',
                     calls', appObs', uwTick)]_vars

(* C30: the same, with the one more edge the loop hooks take: at the end   *)
(* of the message the sub-state is put back to Focused by the very poll    *)
(* that calls Go_Back_Page().                                              *)
PickerEdges ==
    [][\A pg \in PickerPages :
          \/ PickerStep(pg, PageData(AppState, pg), PageData(AppState, pg)',
                        calls', appObs', uwTick)
          \/ /\ PageData(AppState, pg).state = DATE_STATE_SHOW_MSG
             /\ PageData(AppState, pg)'.state = DATE_STATE_FOCUSED
             /\ PageData(AppState, pg)'.focus_index
                  = PageData(AppState, pg).focus_index
             /\ MessageLeft(pg, appObs')]_vars

(* reached: the time page has passed through Switching three times, the    *)
(* focus is back on the hour and the third zoom-in has just begun          *)
PickerEdgesWitness ==
    /\ op = "app_main_loop"
    /\ current_page = g_page_time_time
    /\ g_page_time_data.state = TIME_STATE_ZOOMING_IN
    /\ g_page_time_data.focus_index = 0
    /\ g_page_time_data.anim_start_time = uwTick
    /\ budget <= MaxEdgeEvents - TIME_SLOT_ITEM_COUNT
    /\ \E i \in 1 .. Len(appObs.loops) :
          /\ appObs.loops[i].page = g_page_time_time
          /\ appObs.loops[i].pre.state = TIME_STATE_SWITCHING
          /\ appObs.loops[i].pre.focus_index = TIME_SLOT_ITEM_COUNT - 1

(* C31: on the time page a rotation event with value d taken in Focused    *)
(* sets the focused field to (old + d) mod 24 for the hour and to          *)
(* (old + d) mod 60 for the minute and the second, for every d of the      *)
(* int16_t range, so that 0 <= hour <= 23, 0 <= minute <= 59 and           *)
(* 0 <= second <= 59 afterwards; the two other fields are unchanged.       *)
TimeWraps ==
    LET act == appObs.act IN
    (/\ op = "Page_Action"
     /\ act.page = g_page_time_time
     /\ act.event = INPUT_EVENT_ENCODER
     /\ act.pre.state = TIME_STATE_FOCUSED) =>
        LET old == act.pre.temp_time
            new == act.post.temp_time
            f == act.pre.focus_index
        IN  /\ new.hour = IF f = 0 THEN (old.hour + act.value) % 24
                                   ELSE old.hour
            /\ new.minute = IF f = 1 THEN (old.minute + act.value) % 60
                                     ELSE old.minute
            /\ new.second = IF f = 2 THEN (old.second + act.value) % 60
                                     ELSE old.second
            /\ new.hour \in 0 .. 23
            /\ new.minute \in 0 .. 59
            /\ new.second \in 0 .. 59

(* C32: on the date page a rotation event with value d taken in Focused    *)
(* sets a focused month to ((old - 1 + d) mod 12) + 1, for every d; with   *)
(* the day focused, +1 from the last day of the month gives 1 and -1 from  *)
(* day 1 gives the last day of that month; the year stays in 2000..2099.   *)
DateWraps ==
    LET act == appObs.act IN
    (/\ op = "Page_Action"
     /\ act.page = g_page_time_date
     /\ act.event = INPUT_EVENT_ENCODER
     /\ act.pre.state = DATE_STATE_FOCUSED) =>
        LET old == act.pre.temp_date
            new == act.post.temp_date
            f == act.pre.focus_index
            len == get_max_days_in_month(old.year, old.month)
        IN  /\ f = 1 => new.month = ((old.month - 1 + act.value) % 12) + 1
            /\ (f = 2 /\ act.value = 1 /\ old.day = len) => new.day = 1
            /\ (f = 2 /\ act.value = 0 - 1 /\ old.day = 1) => new.day = len
            /\ new.year \in 2000 .. 2099

(* the length of a month of the Gregorian calendar, with the leap rule    *)
(* year % 4 == 0 && (year % 100 != 0 || year % 400 == 0)                   *)
GregorianLength(year, month) ==
    LET leap == year % 4 = 0 /\ (year % 100 # 0 \/ year % 400 = 0)
    IN  <<31, IF leap THEN 29 ELSE 28, 31, 30, 31, 30,
          31, 31, 30, 31, 30, 31>>[month]

(* C33: for every year in 2000..2099 and every month in 1..12,             *)
(* get_max_days_in_month of the date page gives the Gregorian length of    *)
(* the month, and get_days_in_month of the RTC driver gives the same.      *)
MonthLength ==
    LET act == appObs.act
        now == g_page_date_data.temp_date
    IN  /\ get_max_days_in_month(now.year, now.month)
              = GregorianLength(now.year, now.month)
        /\ get_days_in_month(now.year, now.month)
              = get_max_days_in_month(now.year, now.month)
        /\ (op = "Page_Action" /\ act.page = g_page_time_date) =>
              act.post.temp_date.day
                  = GregorianLength(act.pre.temp_date.year,
                                    act.pre.temp_date.month)

(* reached: turned back from 2000-02-01, the day shows the 29 days of the  *)
(* February of a year divisible by 400                                     *)
MonthLengthWitness ==
    /\ op = "Page_Action"
    /\ appObs.act.page = g_page_time_date
    /\ appObs.act.pre.temp_date.year = 2000
    /\ appObs.act.pre.temp_date.month = 2
    /\ appObs.act.pre.temp_date.day = 1
    /\ g_page_date_data.temp_date.day = 29
    /\ get_days_in_month(2000, 2) = 29

(* C34: the date page and the time page, given the same events at the     *)
(* same ticks, are always in the same sub-state with the same             *)
(* focus_index, and every step makes the same Go_Back_Page() and          *)
(* DS3231_SetTime calls on both.                                           *)
PickersInStep ==
    /\ OnPickers =>
          /\ g_page_date_data.state = g_page_time_data.state
          /\ g_page_date_data.focus_index = g_page_time_data.focus_index
    /\ op = "Page_Action" =>
          /\ appObs.act.backs = appObs.act.peer.backs
          /\ appObs.act.sets = appObs.act.peer.sets
    /\ op = "Page_Loop" =>
          appObs.loops[1].backs = appObs.loops[2].backs

(* C35: a pass of the main loop in which Go_Back_Page() has taken an      *)
(* entry off the history stack has taken off one entry only and has       *)
(* started, at the tick of the pass, the transition to the page taken off. *)
BackStartsTransition ==
    (/\ op = "app_main_loop"
     /\ appObs.backs > 0
     /\ history_depth < pre_depth) =>
        /\ history_depth = pre_depth - 1
        /\ manager_state = MANAGER_STATE_ANIMATING
        /\ anim_start_time = uwTick
        /\ page_to = history_stack[history_depth]

(* the pages entered and not yet exited when enter and exit alternate:     *)
(* the current page, or the target of the transition in flight             *)
LivePages ==
    IF manager_state = MANAGER_STATE_ANIMATING THEN {page_to} ELSE {current_page}

(* the enter and exit calls of cs applied in order to the set `live`: ok   *)
(* is FALSE once a page not in the set is exited or a page in it entered   *)
RECURSIVE Lifecycle(_, _)
Lifecycle(r, cs) ==
    IF cs = <<>>
    THEN r
    ELSE LET c == Head(cs) IN
         Lifecycle(CASE c[1] = "exit" ->
                          [live |-> r.live \ {c[2]},
                           ok |-> r.ok /\ c[2] \in r.live]
                     [] c[1] = "enter" ->
                          [live |-> r.live \cup {c[2]},
                           ok |-> r.ok /\ c[2] \notin r.live]
                     [] OTHER -> r,
                   Tail(cs))

HistoryEntries == {history_stack[i] : i \in 0 .. (history_depth - 1)}

(* C37 as stated: when the manager is Idle on the home page the history   *)
(* stack is empty, and in no state does the history stack hold the        *)
(* current page.                                                           *)
HistoryNeverCurrent ==
    /\ (manager_state = MANAGER_STATE_IDLE /\ current_page = g_page_main)
          => history_depth = 0
    /\ current_page \notin HistoryEntries

(* C37, amended: when the manager is Idle on the home page the history    *)
(* stack is empty, and while the manager is Idle the history stack does   *)
(* not hold the current page.  (During a transition that records history  *)
(* the page left is still current and is already on the stack.)            *)
HistoryOffCurrent ==
    manager_state = MANAGER_STATE_IDLE =>
        /\ current_page = g_page_main => history_depth = 0
        /\ current_page \notin HistoryEntries

(* reached: the manager is Idle on the home page again after the          *)
(* transition back from the main menu, with an empty history               *)
HistoryOffCurrentWitness ==
    /\ manager_state = MANAGER_STATE_IDLE
    /\ current_page = g_page_main
    /\ page_from = g_page_main_menu
    /\ page_to = g_page_main
    /\ history_depth = 0
    /\ op = "app_main_loop"

(* C38: when Page_Manager_Loop has handed an event to a page,             *)
(* check_user_activity has refreshed last_activity_time at or after the   *)
(* tick at which the scan interrupt queued the event.                      *)
DispatchedEventsCounted ==
    (op = "Page_Manager_Loop" /\ pop_ret = 1) =>
        last_activity_time >= pop_event.timestamp

(* while the screen is off the manager is Idle on the home page with an   *)
(* empty history and the latest step has called no action, loop or draw    *)
(* hook                                                                    *)
OffQuiet ==
    ~is_screen_on =>
        /\ manager_state = MANAGER_STATE_IDLE
        /\ current_page = g_page_main
        /\ history_depth = 0
        /\ \A i \in DOMAIN calls : calls[i][1] \notin {"action", "loop", "draw"}

(* a step taken with the screen off hands no event to a page, and if it   *)
(* turns the screen on it is check_user_activity and leaves the queue     *)
(* empty: the events queued while the screen was off have been discarded   *)
OffStep ==
    ~is_screen_on =>
        /\ pop_ret' # 1
        /\ is_screen_on' =>
              /\ op' = "check_user_activity"
              /\ fifo_count' = 0
              /\ last_activity_time' = uwTick

TimeoutOf(auto_off) ==
    CASE auto_off = 1 -> 30000
      [] auto_off = 2 -> 60000
      [] auto_off = 3 -> 300000
      [] auto_off = 4 -> 600000
      [] OTHER -> 0

(* C40: a pass of the main loop that begins with an empty queue, so that  *)
(* check_user_activity changes nothing, comes to handle_auto_off with     *)
(* auto_off_timeout_ms equal to the timeout of the current                 *)
(* g_app_settings.auto_off; a pass that begins with an event queued has    *)
(* update_auto_off_timeout called before handle_auto_off.                  *)
TimeoutFollowsSetting ==
    [][(op' = "app_main_loop" /\ fifo_count = 0) =>
           auto_off_timeout_ms = TimeoutOf(g_app_settings.auto_off)]_vars

====
